---------------------------- MODULE Publication ----------------------------
(***************************************************************************)
(* pub, sub, unsub and unsub-all: a dispatch thread takes values from the  *)
(* source channel and puts each on the channels subscribed to its topic.   *)
(* It holds the publication's lock for as long as those puts take; sub and *)
(* unsub change the table under the same lock, and are one step each.      *)
(***************************************************************************)
EXTENDS Chans

CONSTANT Topic          \* by value: its topic

VARIABLES subs,         \* by topic: the subscribed channels, in the order of the list
          pubLock       \* the thread that holds the lock, or Nil

pubVars == <<subs, pubLock>>
srcCh == <<"src", 1>>

PubTake(p) ==
  /\ pc[p] = "take"
  /\ \/ TakeBlocks(p, srcCh) /\ UNCHANGED bodyVars
     \/ \E v \in Answers(p, srcCh) :
          /\ TakeAnswers(p, srcCh, v)
          /\ pc' = [pc EXCEPT ![p] = IF v = Nil THEN "end" ELSE "route"]
          /\ loc' = [loc EXCEPT ![p] = v]
          /\ UNCHANGED <<todo, got>>
  /\ UNCHANGED pubVars

\* Mutant: the list is read under the lock, and the puts are made without it.
PubRouteUnlocked(p) ==
  /\ pc[p] = "route" /\ pubLock = Nil
  /\ todo' = [todo EXCEPT ![p] = subs[Topic[loc[p]]]]
  /\ pc' = [pc EXCEPT ![p] = "send"]
  /\ UNCHANGED <<subs, pubLock, loc, got, chanVars>>

PubRoute(p) ==
  /\ pc[p] = "route" /\ pubLock = Nil
  /\ pubLock' = p
  /\ todo' = [todo EXCEPT ![p] = subs[Topic[loc[p]]]]
  /\ pc' = [pc EXCEPT ![p] = "send"]
  /\ UNCHANGED <<subs, loc, got, chanVars>>

PubSend(p) ==
  /\ pc[p] = "send" /\ todo[p] # << >>
  /\ \/ PutBlocks(p, Head(todo[p])) /\ UNCHANGED todo
     \/ /\ \E accepted \in BOOLEAN : PutAnswers(p, Head(todo[p]), loc[p], accepted)
        /\ todo' = [todo EXCEPT ![p] = Tail(@)]
  /\ UNCHANGED <<pc, loc, got, pubVars>>

\* The end of the source: every subscribed channel is closed, topics in any order.
PubEnd(p) ==
  /\ pc[p] = "end" /\ pubLock = Nil
  /\ pubLock' = p
  /\ \E order \in SetToSeqs(DOMAIN subs) :
       todo' = [todo EXCEPT ![p] = FlattenSeq([i \in DOMAIN order |-> subs[order[i]]])]
  /\ pc' = [pc EXCEPT ![p] = "close"]
  /\ UNCHANGED <<subs, loc, got, chanVars>>

PubClose(p) ==
  /\ pc[p] = "close" /\ todo[p] # << >>
  /\ Close(Head(todo[p]))
  /\ todo' = [todo EXCEPT ![p] = Tail(@)]
  /\ UNCHANGED <<pc, loc, got, pubVars>>

PubUnlock(p) ==
  /\ pc[p] \in {"send", "close"} /\ todo[p] = << >>
  /\ pubLock' = Nil
  /\ pc' = [pc EXCEPT ![p] = IF @ = "send" THEN "take" ELSE "done"]
  /\ UNCHANGED <<subs, loc, todo, got, chanVars>>

-----------------------------------------------------------------------------
(* sub, unsub and unsub-all. *)

Sub(topic, c) ==
  subs' = [subs EXCEPT ![topic] = IF Contains(@, c) THEN @ ELSE <<c>> \o @]

Unsub(topic, c) == subs' = [subs EXCEPT ![topic] = SelectSeq(@, LAMBDA x : x # c)]

\* With a topic, or with Nil for all topics.
UnsubAll(topic) == subs' = [t \in DOMAIN subs |-> IF topic \in {t, Nil} THEN << >> ELSE subs[t]]

\* The calls of a thread that subscribes and unsubscribes, one after the other.
Request(p) ==
  /\ todo[p] # << >> /\ pubLock = Nil
  /\ LET r == Head(todo[p]) IN
     \/ r.op = "sub" /\ Sub(r.topic, r.ch)
     \/ r.op = "unsub" /\ Unsub(r.topic, r.ch)
     \/ r.op = "unsub-all" /\ UnsubAll(r.topic)
  /\ todo' = [todo EXCEPT ![p] = Tail(@)]
  /\ UNCHANGED <<pc, loc, got, pubLock, chanVars>>

PubStep(p) ==
  \/ p[1] = "pub" /\ (PubTake(p) \/ PubRoute(p) \/ PubSend(p) \/ PubEnd(p) \/ PubClose(p) \/ PubUnlock(p))
  \/ p[1] = "client" /\ Request(p)
=============================================================================
