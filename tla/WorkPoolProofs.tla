--------------------------- MODULE WorkPoolProofs ---------------------------
(***************************************************************************)
(* The thread pool for any number of workers, clients and items, and the   *)
(* deques it is built on, for any capacity: Deque implements the sequences *)
(* that the pool's model works with, and the pool keeps every item that is *)
(* submitted to it.                                                        *)
(***************************************************************************)
EXTENDS WorkPool, SequenceTheorems, TLAPS

CONSTANTS Capacity, MaxCapacity     \* of a worker's deque
VARIABLES data, head, tail, out     \* the slots of one deque, its last answer

D == INSTANCE Deque

(* A cell of the buffer is empty or holds an item. *)
Cells == Items \cup {NIL}

(* The head and the tail index the buffer, which is never completely full:  *)
(* head = tail is the empty deque and nothing else.                         *)
DequeInv == /\ data \in Seq(Cells) /\ D!Cap >= 2
            /\ head \in 0..(D!Cap - 1) /\ tail \in 0..(D!Cap - 1)

(* The i-th cell from index h of a circular buffer of c cells. *)
Cell(h, i, c) == (h + i - 1) % c

LEMMA CellIndex ==
  ASSUME NEW c \in Nat \ {0}, NEW h \in 0..(c - 1), NEW i \in 1..c
  PROVE  /\ Cell(h, i, c) \in 0..(c - 1)
         /\ h + i - 1 < c => Cell(h, i, c) = h + i - 1
         /\ h + i - 1 >= c => Cell(h, i, c) = h + i - 1 - c
BY DEF Cell

LEMMA CellsApart ==
  ASSUME NEW c \in Nat \ {0}, NEW h \in 0..(c - 1), NEW i \in 1..c, NEW j \in 1..c, i # j
  PROVE  Cell(h, i, c) \in 0..(c - 1) /\ Cell(h, i, c) # Cell(h, j, c)
<1>1. /\ Cell(h, i, c) \in 0..(c - 1)
      /\ h + i - 1 < c => Cell(h, i, c) = h + i - 1
      /\ h + i - 1 >= c => Cell(h, i, c) = h + i - 1 - c
  BY CellIndex
<1>2. /\ h + j - 1 < c => Cell(h, j, c) = h + j - 1
      /\ h + j - 1 >= c => Cell(h, j, c) = h + j - 1 - c
  BY CellIndex
<1> QED BY <1>1, <1>2

(* Stepping an index back and forth around the buffer. *)
LEMMA Around ==
  ASSUME NEW c \in Nat \ {0}, NEW h \in 0..(c - 1)
  PROVE  /\ (h + 1) % c = IF h = c - 1 THEN 0 ELSE h + 1
         /\ (h - 1) % c = IF h = 0 THEN c - 1 ELSE h - 1
<1>1. CASE h = c - 1
  <2>1. (h + 1) % c = 0
    BY <1>1
  <2>2. h # 0 => (h - 1) % c = h - 1
    OBVIOUS
  <2>3. h = 0 => (h - 1) % c = c - 1
    BY <1>1
  <2> QED BY <1>1, <2>1, <2>2, <2>3
<1>2. CASE h # c - 1
  <2>1. h + 1 \in 0..(c - 1)
    BY <1>2
  <2>2. (h + 1) % c = h + 1
    BY <2>1
  <2>3. h # 0 => (h - 1) % c = h - 1
    OBVIOUS
  <2>4. h = 0 => (h - 1) % c = c - 1
    OBVIOUS
  <2> QED BY <1>2, <2>2, <2>3, <2>4
<1> QED BY <1>1, <1>2

(* The number of cells from index h up to index t. *)
Span(h, t, c) == IF t - h < 0 THEN t - h + c ELSE t - h

(* The n cells of buffer b from index h on. *)
Window(b, h, n) == [i \in 1..n |-> b[Cell(h, i, Len(b)) + 1]]

LEMMA SpanFacts ==
  ASSUME NEW c \in Nat \ {0}, NEW h \in 0..(c - 1), NEW t \in 0..(c - 1)
  PROVE  /\ Span(h, t, c) \in 0..(c - 1)
         /\ Span(h, t, c) = 0 <=> h = t
<1>1. CASE t - h < 0
  BY <1>1 DEF Span
<1>2. CASE t - h >= 0
  BY <1>2 DEF Span
<1> QED BY <1>1, <1>2

LEMMA WindowSeq ==
  ASSUME NEW c \in Nat \ {0}, NEW b \in Seq(Cells), Len(b) = c,
         NEW h \in 0..(c - 1), NEW n \in 0..c
  PROVE  /\ Window(b, h, n) \in Seq(Cells) /\ Len(Window(b, h, n)) = n
         /\ \A i \in 1..n : Window(b, h, n)[i] = b[Cell(h, i, c) + 1]
<1>2. ASSUME NEW i \in 1..n PROVE Cell(h, i, c) + 1 \in 1..c
  <2>0. i \in 1..c
    OBVIOUS
  <2>1. Cell(h, i, c) \in 0..(c - 1)
    BY <2>0, CellIndex
  <2> QED BY <2>1
<1>3. \A i \in 1..n : b[Cell(h, i, c) + 1] \in Cells
  BY <1>2, ElementOfSeq
<1>4. Window(b, h, n) \in [1..n -> Cells]
  BY <1>3 DEF Window
<1> QED BY <1>4 DEF Window

LEMMA WindowShort ==
  ASSUME NEW c \in Nat \ {0}, NEW b \in Seq(Cells), Len(b) = c,
         NEW h \in 0..(c - 1), NEW n \in 0..(c - 1)
  PROVE  /\ Window(b, h, n) \in Seq(Cells) /\ Len(Window(b, h, n)) = n
         /\ \A i \in 1..n : Window(b, h, n)[i] = b[Cell(h, i, c) + 1]
<1>1. PICK m \in 0..c : m = n
  OBVIOUS
<1>2. /\ Window(b, h, m) \in Seq(Cells) /\ Len(Window(b, h, m)) = m
      /\ \A i \in 1..m : Window(b, h, m)[i] = b[Cell(h, i, c) + 1]
  BY ONLY m \in 0..c, WindowSeq, c \in Nat \ {0}, b \in Seq(Cells), Len(b) = c, h \in 0..(c - 1)
<1> QED BY <1>1, <1>2

(* The deque's own definitions in these terms. *)
LEMMA DequeTerms ==
  /\ D!Cap = Len(data) /\ D!Count = Span(head, tail, Len(data))
  /\ D!Contents = Window(data, head, D!Count)
BY DEF D!Cap, D!Count, D!Contents, D!At, Span, Window, Cell

LEMMA DequeTermsNext ==
  /\ D!Cap' = Len(data') /\ D!Count' = Span(head', tail', Len(data'))
  /\ D!Contents' = Window(data', head', Span(head', tail', Len(data')))
BY DEF D!Cap, D!Count, D!Contents, D!At, Span, Window, Cell

-----------------------------------------------------------------------------
(* Appending at the tail, dropping the last cell and dropping the first, of *)
(* a window that leaves at least one cell of the buffer free; the buffers   *)
(* before and after differ in one cell at most.                             *)

AlikeBut(b, d, c, k) == \A j \in 1..c : j # k => d[j] = b[j]

LEMMA StoreAlike ==
  ASSUME NEW c \in Nat \ {0}, NEW b \in Seq(Cells), Len(b) = c, NEW k \in 1..c, NEW x \in Cells
  PROVE  \E d \in Seq(Cells) : d = [b EXCEPT ![k] = x] /\ Len(d) = c /\ AlikeBut(b, d, c, k) /\ d[k] = x
<1>1. /\ [b EXCEPT ![k] = x] \in Seq(Cells)
      /\ Len([b EXCEPT ![k] = x]) = Len(b)
      /\ \A j \in 1..Len(b) : [b EXCEPT ![k] = x][j] = IF j = k THEN x ELSE b[j]
  BY ExceptSeq
<1>2. PICK d \in Seq(Cells) : d = [b EXCEPT ![k] = x]
  BY <1>1
<1>3. Len(d) = c /\ d[k] = x /\ \A j \in 1..c : j # k => d[j] = b[j]
  BY <1>1, <1>2
<1> QED BY <1>2, <1>3 DEF AlikeBut

LEMMA WindowAppend ==
  ASSUME NEW c \in Nat \ {0}, NEW b \in Seq(Cells), NEW d \in Seq(Cells), Len(b) = c, Len(d) = c,
         NEW h \in 0..(c - 1), NEW n \in 0..(c - 1), NEW x \in Cells,
         NEW k \in 1..c, k = Cell(h, n + 1, c) + 1, AlikeBut(b, d, c, k), d[k] = x
  PROVE  Window(d, h, n + 1) = Append(Window(b, h, n), x)
<1> DEFINE s == Window(b, h, n)
           u == Window(d, h, n + 1)
<1>1. n + 1 \in 1..c /\ n \in 0..c /\ n + 1 \in 0..c
  OBVIOUS
<1>0. Cell(h, n + 1, c) \in 0..(c - 1)
  BY <1>1, CellIndex
<1>2. k = Cell(h, n + 1, c) + 1
  OBVIOUS
<1>3. /\ d \in Seq(Cells) /\ Len(d) = c /\ d[k] = x
      /\ b \in Seq(Cells) /\ Len(b) = c
      /\ \A j \in 1..c : j # k => d[j] = b[j]
  BY DEF AlikeBut
<1>4. /\ s \in Seq(Cells) /\ Len(s) = n
      /\ \A i \in 1..n : s[i] = b[Cell(h, i, c) + 1]
  <2>1. n \in 0..c
    BY <1>1
  <2> QED BY ONLY SMTT(30), <2>1, WindowSeq, b \in Seq(Cells), Len(b) = c, c \in Nat \ {0}, h \in 0..(c - 1)
<1>5. /\ u \in Seq(Cells) /\ Len(u) = n + 1
      /\ \A i \in 1..(n + 1) : u[i] = d[Cell(h, i, c) + 1]
  BY ONLY <1>1, WindowSeq, d \in Seq(Cells), Len(d) = c, c \in Nat \ {0}, h \in 0..(c - 1)
<1> HIDE DEF u, s
<1>6. ASSUME NEW i \in 1..n PROVE u[i] = s[i]
  <2>1. i \in 1..c /\ i \in 1..(n + 1) /\ i # n + 1
    OBVIOUS
  <2>2. Cell(h, i, c) \in 0..(c - 1) /\ Cell(h, i, c) # Cell(h, n + 1, c)
    BY ONLY <1>1, <2>1, c \in Nat \ {0}, h \in 0..(c - 1), CellsApart
  <2>3. Cell(h, i, c) + 1 \in 1..c /\ Cell(h, i, c) + 1 # k
    BY <1>0, <1>2, <2>2
  <2> QED BY <1>3, <1>4, <1>5, <2>1, <2>3
<1>7. u[n + 1] = x
  BY <1>1, <1>2, <1>3, <1>5
<1>8. /\ Append(s, x) \in Seq(Cells) /\ Len(Append(s, x)) = n + 1
      /\ \A i \in 1..n : Append(s, x)[i] = s[i]
      /\ Append(s, x)[n + 1] = x
  BY <1>4, AppendProperties
<1>9. \A i \in 1..(n + 1) : u[i] = Append(s, x)[i]
  BY <1>6, <1>7, <1>8
<1>10. u = Append(s, x)
  BY <1>5, <1>8, <1>9, SeqEqual
<1> QED BY <1>10 DEF u, s

LEMMA WindowDropLast ==
  ASSUME NEW c \in Nat \ {0}, NEW b \in Seq(Cells), NEW d \in Seq(Cells), Len(b) = c, Len(d) = c,
         NEW h \in 0..(c - 1), NEW n \in 1..c,
         NEW k \in 1..c, k = Cell(h, n, c) + 1, AlikeBut(b, d, c, k)
  PROVE  Window(d, h, n - 1) = SubSeq(Window(b, h, n), 1, n - 1)
<1> DEFINE s == Window(b, h, n)
           u == Window(d, h, n - 1)
<1>1. n \in 0..c /\ n - 1 \in 0..c
  OBVIOUS
<1>2. Cell(h, n, c) \in 0..(c - 1)
  BY CellIndex
<1>3. k = Cell(h, n, c) + 1
  OBVIOUS
<1>4. /\ d \in Seq(Cells) /\ Len(d) = c
      /\ b \in Seq(Cells) /\ Len(b) = c
      /\ \A j \in 1..c : j # k => d[j] = b[j]
  BY DEF AlikeBut
<1>5. /\ s \in Seq(Cells) /\ Len(s) = n
      /\ \A i \in 1..n : s[i] = b[Cell(h, i, c) + 1]
  <2>1. n \in 0..c
    BY <1>1
  <2> QED BY ONLY <2>1, WindowSeq, b \in Seq(Cells), Len(b) = c, c \in Nat \ {0}, h \in 0..(c - 1)
<1>6. /\ u \in Seq(Cells) /\ Len(u) = n - 1
      /\ \A i \in 1..(n - 1) : u[i] = d[Cell(h, i, c) + 1]
  <2>1. PICK m \in 0..c : m = n - 1
    BY <1>1
  <2>2. /\ Window(d, h, m) \in Seq(Cells) /\ Len(Window(d, h, m)) = m
        /\ \A i \in 1..m : Window(d, h, m)[i] = d[Cell(h, i, c) + 1]
    BY ONLY m \in 0..c, WindowSeq, d \in Seq(Cells), Len(d) = c, c \in Nat \ {0}, h \in 0..(c - 1)
  <2> QED BY <2>1, <2>2
<1> HIDE DEF u, s
<1>7. ASSUME NEW i \in 1..(n - 1) PROVE u[i] = s[i]
  <2>1. i \in 1..c /\ i \in 1..n /\ i # n
    OBVIOUS
  <2>2. Cell(h, i, c) \in 0..(c - 1) /\ Cell(h, i, c) # Cell(h, n, c)
    BY <2>1, CellsApart
  <2>3. Cell(h, i, c) + 1 \in 1..c /\ Cell(h, i, c) + 1 # k
    BY <1>2, <1>3, <2>2
  <2> QED BY <1>4, <1>5, <1>6, <2>1, <2>3
<1>8. /\ SubSeq(s, 1, n - 1) \in Seq(Cells) /\ Len(SubSeq(s, 1, n - 1)) = n - 1
      /\ \A i \in 1..(n - 1) : SubSeq(s, 1, n - 1)[i] = s[i]
  <2>1. \A i \in 1..(n - 1) : s[i] \in Cells
    BY <1>5, ElementOfSeq
  <2> QED BY <2>1, SubSeqProperties
<1>9. u = SubSeq(s, 1, n - 1)
  BY <1>6, <1>7, <1>8, SeqEqual
<1> QED BY <1>9 DEF u, s

LEMMA WindowDropFirst ==
  ASSUME NEW c \in Nat \ {0}, NEW b \in Seq(Cells), NEW d \in Seq(Cells), Len(b) = c, Len(d) = c,
         NEW h \in 0..(c - 1), NEW n \in 1..c,
         NEW k \in 1..c, k = h + 1, AlikeBut(b, d, c, k), NEW g \in 0..(c - 1), g = (h + 1) % c
  PROVE  Window(d, g, n - 1) = Tail(Window(b, h, n))
<1> DEFINE s == Window(b, h, n)
           u == Window(d, g, n - 1)
<1>1. n \in 0..c /\ n - 1 \in 0..c /\ h + 1 \in 1..c
  OBVIOUS
<1>2. g = IF h = c - 1 THEN 0 ELSE h + 1
  BY Around
<1>3. g \in 0..(c - 1)
  BY <1>2
<1>4. /\ d \in Seq(Cells) /\ Len(d) = c
      /\ b \in Seq(Cells) /\ Len(b) = c
      /\ \A j \in 1..c : j # h + 1 => d[j] = b[j]
  BY DEF AlikeBut
<1>5. /\ s \in Seq(Cells) /\ Len(s) = n
      /\ \A i \in 1..n : s[i] = b[Cell(h, i, c) + 1]
  <2>1. n \in 0..c
    BY <1>1
  <2> QED BY ONLY <2>1, WindowSeq, b \in Seq(Cells), Len(b) = c, c \in Nat \ {0}, h \in 0..(c - 1)
<1>6. /\ u \in Seq(Cells) /\ Len(u) = n - 1
      /\ \A i \in 1..(n - 1) : u[i] = d[Cell(g, i, c) + 1]
  <2>1. PICK m \in 0..c : m = n - 1
    BY <1>1
  <2>2. /\ Window(d, g, m) \in Seq(Cells) /\ Len(Window(d, g, m)) = m
        /\ \A i \in 1..m : Window(d, g, m)[i] = d[Cell(g, i, c) + 1]
    BY ONLY m \in 0..c, WindowSeq, d \in Seq(Cells), Len(d) = c, c \in Nat \ {0}, g \in 0..(c - 1)
  <2> QED BY <2>1, <2>2
<1> HIDE DEF u, s
<1>7. ASSUME NEW i \in 1..(n - 1) PROVE u[i] = s[i + 1]
  <2>1. i \in 1..c /\ i + 1 \in 1..c /\ i + 1 \in 1..n /\ 1 \in 1..c /\ i + 1 # 1
    OBVIOUS
  <2>2. /\ h + (i + 1) - 1 < c => Cell(h, i + 1, c) = h + (i + 1) - 1
        /\ h + (i + 1) - 1 >= c => Cell(h, i + 1, c) = h + (i + 1) - 1 - c
    BY <2>1, CellIndex
  <2>3. /\ g + i - 1 < c => Cell(g, i, c) = g + i - 1
        /\ g + i - 1 >= c => Cell(g, i, c) = g + i - 1 - c
    BY <1>3, <2>1, CellIndex
  <2>4. Cell(g, i, c) = Cell(h, i + 1, c)
    BY <1>2, <2>1, <2>2, <2>3
  <2>5. Cell(h, 1, c) = h
    BY <2>1, CellIndex
  <2>6. Cell(h, i + 1, c) \in 0..(c - 1) /\ Cell(h, i + 1, c) # h
    BY <2>1, <2>5, CellsApart
  <2>7. d[Cell(h, i + 1, c) + 1] = b[Cell(h, i + 1, c) + 1]
    BY SMTT(30), <1>4, <2>6
  <2> QED BY <1>5, <1>6, <2>1, <2>4, <2>7
<1>8. /\ Tail(s) \in Seq(Cells) /\ Len(Tail(s)) = n - 1
      /\ \A i \in 1..(n - 1) : Tail(s)[i] = s[i + 1]
  <2>1. s # <<>>
    BY <1>5
  <2> QED BY <1>5, <2>1, HeadTailProperties
<1>9. u = Tail(s)
  BY <1>6, <1>7, <1>8, SeqEqual
<1> QED BY <1>9 DEF u, s

(* %deque-grow moves the window to the front of a buffer twice as long. *)
LEMMA WindowGrown ==
  ASSUME NEW c \in Nat \ {0}, NEW b \in Seq(Cells), Len(b) = c,
         NEW h \in 0..(c - 1), NEW n \in 0..(c - 1),
         NEW d, d \in [1..(2 * c) -> Cells], \A i \in 1..n : d[i] = b[Cell(h, i, c) + 1]
  PROVE  d \in Seq(Cells) /\ Len(d) = 2 * c /\ Window(d, 0, n) = Window(b, h, n)
<1> DEFINE s == Window(b, h, n)
           u == Window(d, 0, n)
<1>1. n \in 0..c /\ 2 * c \in Nat \ {0} /\ n \in 0..(2 * c) /\ 0 \in 0..(2 * c - 1)
  OBVIOUS
<1>3. d \in [1..(2 * c) -> Cells]
  OBVIOUS
<1>4. d \in Seq(Cells) /\ Len(d) = 2 * c
  BY <1>1, <1>3
<1>5. /\ s \in Seq(Cells) /\ Len(s) = n
      /\ \A i \in 1..n : s[i] = b[Cell(h, i, c) + 1]
  BY ONLY SMTT(30), <1>1, WindowSeq, c \in Nat \ {0}, b \in Seq(Cells), Len(b) = c, h \in 0..(c - 1)
<1>6. PICK e \in Nat \ {0} : e = 2 * c
  BY <1>1
<1>7. /\ u \in Seq(Cells) /\ Len(u) = n
      /\ \A i \in 1..n : u[i] = d[Cell(0, i, e) + 1]
  <2>1. Len(d) = e /\ d \in Seq(Cells) /\ n \in 0..e /\ 0 \in 0..(e - 1)
    BY ONLY <1>1, <1>4, <1>6
  <2>2. PICK z \in 0..(e - 1) : z = 0
    BY <2>1
  <2>3. /\ Window(d, z, n) \in Seq(Cells) /\ Len(Window(d, z, n)) = n
        /\ \A i \in 1..n : Window(d, z, n)[i] = d[Cell(z, i, e) + 1]
    BY ONLY e \in Nat \ {0}, z \in 0..(e - 1), <2>1, WindowSeq
  <2> QED BY <2>2, <2>3
<1> HIDE DEF u, s
<1>8. ASSUME NEW i \in 1..n PROVE u[i] = s[i]
  <2>1. i \in 1..e /\ i \in 1..(2 * c) /\ 0 + i - 1 < e /\ 0 \in 0..(e - 1) /\ i \in Nat
    BY ONLY <1>6, c \in Nat \ {0}, n \in 0..(c - 1), i \in 1..n
  <2>2. Cell(0, i, e) = 0 + i - 1
    BY <1>6, <2>1, CellIndex
  <2>3. Cell(0, i, e) + 1 = i
    BY <2>1, <2>2
  <2>4. d[i] = b[Cell(h, i, c) + 1]
    OBVIOUS
  <2> QED BY ONLY <1>5, <1>7, <2>3, <2>4, i \in 1..n
<1>9. u = s
  BY <1>5, <1>7, <1>8, SeqEqual
<1> QED BY <1>4, <1>9 DEF u, s

(* What the three ways of moving an index do to the number of cells. *)
LEMMA SpanMoves ==
  ASSUME NEW c \in Nat \ {0}, NEW h \in 0..(c - 1), NEW t \in 0..(c - 1)
  PROVE  /\ Span(h, t, c) < c - 1 => /\ Span(h, (t + 1) % c, c) = Span(h, t, c) + 1
                                     /\ t = Cell(h, Span(h, t, c) + 1, c)
                                     /\ (t + 1) % c \in 0..(c - 1)
         /\ h # t => /\ Span(h, (t - 1) % c, c) = Span(h, t, c) - 1
                     /\ (t - 1) % c = Cell(h, Span(h, t, c), c)
                     /\ (t - 1) % c \in 0..(c - 1)
                     /\ Span((h + 1) % c, t, c) = Span(h, t, c) - 1
                     /\ (h + 1) % c \in 0..(c - 1)
<1>1. PICK n \in 0..(c - 1) : n = Span(h, t, c) /\ n = IF t - h < 0 THEN t - h + c ELSE t - h
  BY SpanFacts DEF Span
<1>2. PICK f \in 0..(c - 1), p \in 0..(c - 1), g \in 0..(c - 1) :
        /\ f = (t + 1) % c /\ f = IF t = c - 1 THEN 0 ELSE t + 1
        /\ p = (t - 1) % c /\ p = IF t = 0 THEN c - 1 ELSE t - 1
        /\ g = (h + 1) % c /\ g = IF h = c - 1 THEN 0 ELSE h + 1
  <2>1. /\ (t + 1) % c = IF t = c - 1 THEN 0 ELSE t + 1
        /\ (t - 1) % c = IF t = 0 THEN c - 1 ELSE t - 1
        /\ (h + 1) % c = IF h = c - 1 THEN 0 ELSE h + 1
    BY Around
  <2> QED BY <2>1
<1>3. ASSUME n < c - 1 PROVE Span(h, f, c) = n + 1 /\ t = Cell(h, n + 1, c)
  <2>1. n + 1 \in 1..c
    BY <1>3
  <2>2. /\ h + (n + 1) - 1 < c => Cell(h, n + 1, c) = h + (n + 1) - 1
        /\ h + (n + 1) - 1 >= c => Cell(h, n + 1, c) = h + (n + 1) - 1 - c
    BY <2>1, CellIndex
  <2>3. t = Cell(h, n + 1, c)
    BY <1>1, <2>2
  <2>4. Span(h, f, c) = n + 1
    BY <1>1, <1>2, <1>3 DEF Span
  <2> QED BY <2>3, <2>4
<1>4. ASSUME h # t PROVE Span(h, p, c) = n - 1 /\ p = Cell(h, n, c) /\ Span(g, t, c) = n - 1
  <2>1. n \in 1..c
    BY <1>1, <1>4
  <2>2. /\ h + n - 1 < c => Cell(h, n, c) = h + n - 1
        /\ h + n - 1 >= c => Cell(h, n, c) = h + n - 1 - c
    BY <2>1, CellIndex
  <2>3. p = Cell(h, n, c)
    BY <1>1, <1>2, <1>4, <2>2
  <2>4. Span(h, p, c) = n - 1
    BY <1>1, <1>2, <1>4 DEF Span
  <2>5. Span(g, t, c) = n - 1
    BY <1>1, <1>2, <1>4 DEF Span
  <2> QED BY <2>3, <2>4, <2>5
<1> QED BY <1>1, <1>2, <1>3, <1>4

-----------------------------------------------------------------------------
(* Every operation on the circular buffer is the operation on the sequence. *)

LEMMA PushIsAppend ==
  ASSUME DequeInv, NEW x \in Items, D!PushTail(x)
  PROVE  DequeInv' /\ D!Sequence!PushTail(x)
<1>1. PICK c \in Nat \ {0} : c = Len(data) /\ c >= 2
  BY DEF DequeInv, D!Cap
<1>2. PICK b \in Seq(Cells) : b = data
  BY DEF DequeInv
<1>3. PICK h \in 0..(c - 1) : h = head
  BY <1>1 DEF DequeInv, D!Cap
<1>4. PICK t \in 0..(c - 1) : t = tail
  BY <1>1 DEF DequeInv, D!Cap
<1>5. Len(b) = c
  BY <1>1, <1>2
<1>6. PICK n \in 0..(c - 1) : n = Span(h, t, c) /\ (n = 0 <=> h = t)
  <2>1. /\ Span(h, t, c) \in 0..(c - 1)
        /\ Span(h, t, c) = 0 <=> h = t
    BY SpanFacts
  <2> QED BY <2>1
<1>7. D!Cap = c /\ D!Count = n /\ D!Contents = Window(b, h, n)
  BY <1>1, <1>2, <1>3, <1>4, <1>6, DequeTerms
<1>9. PICK y \in Cells : y = x
  BY DEF Cells
<1>10. SUFFICES /\ data' \in Seq(Cells) /\ Len(data') >= 2
               /\ head' \in 0..(Len(data') - 1) /\ tail' \in 0..(Len(data') - 1)
               /\ Window(data', head', Span(head', tail', Len(data'))) = Append(Window(b, h, n), y)
               /\ out' = NIL
  BY <1>7, <1>9, DequeTermsNext DEF DequeInv, D!Sequence!PushTail, D!Cap
<1>11. out' = NIL
  BY DEF D!PushTail
<1>12. CASE n < c - 1
  <2>0. ~D!NeedsGrowth
    BY <1>7, <1>12 DEF D!NeedsGrowth
  <2>1. data' = [b EXCEPT ![t + 1] = y] /\ head' = h /\ tail' = (t + 1) % c
    BY <1>2, <1>3, <1>4, <1>5, <1>9, <2>0 DEF D!PushTail
  <2>2. /\ Span(h, (t + 1) % c, c) = n + 1 /\ t = Cell(h, n + 1, c)
        /\ (t + 1) % c \in 0..(c - 1)
    BY <1>5, <1>6, <1>12, SpanMoves
  <2>3. PICK k \in 1..c : k = t + 1 /\ k = Cell(h, n + 1, c) + 1
    BY <2>2
  <2>4. PICK d \in Seq(Cells) : d = [b EXCEPT ![k] = y] /\ Len(d) = c /\ AlikeBut(b, d, c, k) /\ d[k] = y
    <3>1. /\ [b EXCEPT ![k] = y] \in Seq(Cells)
          /\ Len([b EXCEPT ![k] = y]) = Len(b)
          /\ \A j \in 1..Len(b) : [b EXCEPT ![k] = y][j] = IF j = k THEN y ELSE b[j]
      BY <1>5, ExceptSeq
    <3>2. PICK dd \in Seq(Cells) : dd = [b EXCEPT ![k] = y]
      BY <3>1
    <3>3. Len(dd) = c /\ dd[k] = y /\ \A j \in 1..c : j # k => dd[j] = b[j]
      BY <1>5, <3>1, <3>2
    <3> QED BY <3>2, <3>3 DEF AlikeBut
  <2>5. Len(d) = c /\ AlikeBut(b, d, c, k) /\ d[k] = y /\ k = Cell(h, n + 1, c) + 1
    BY <2>3, <2>4
  <2>6. Window(d, h, n + 1) = Append(Window(b, h, n), y)
    BY ONLY <1>5, y \in Cells, <2>5, c \in Nat \ {0}, b \in Seq(Cells), d \in Seq(Cells), k \in 1..c,
            h \in 0..(c - 1), n \in 0..(c - 1), WindowAppend
  <2>7. data' = d /\ Len(data') = c /\ Span(head', tail', Len(data')) = n + 1
    BY <2>1, <2>2, <2>3, <2>4
  <2> QED BY <1>1, <1>11, <2>1, <2>2, <2>6, <2>7
<1>13. CASE n = c - 1
  <2>0. D!NeedsGrowth
    BY <1>7, <1>13 DEF D!NeedsGrowth
  <2>1. PICK d : d = D!Grown
    OBVIOUS
  <2>2. d = [i \in 1..(2 * c) |-> IF i <= n THEN b[Cell(h, i, c) + 1] ELSE NIL]
    BY <1>2, <1>3, <1>7, <2>1 DEF D!Grown, D!At, Cell
  <2>3. d \in Seq(Cells) /\ Len(d) = 2 * c /\ Window(d, 0, n) = Window(b, h, n)
    <3>1. ASSUME NEW i \in 1..n PROVE b[Cell(h, i, c) + 1] \in Cells
      <4>1. i \in 1..c
        OBVIOUS
      <4>2. Cell(h, i, c) \in 0..(c - 1)
        BY <4>1, CellIndex
      <4> QED BY <1>5, <4>2, ElementOfSeq
    <3>2. d \in [1..(2 * c) -> Cells]
      BY <2>2, <3>1 DEF Cells
    <3>3. \A i \in 1..n : d[i] = b[Cell(h, i, c) + 1]
      BY <2>2
    <3> QED BY ONLY SMTT(30), <1>5, <3>2, <3>3, WindowGrown, n \in 0..(c - 1), c \in Nat \ {0}, b \in Seq(Cells), h \in 0..(c - 1)
  <2>4. data' = [d EXCEPT ![n + 1] = y] /\ head' = 0 /\ tail' = (n + 1) % (2 * c)
    BY <1>7, <1>9, <2>0, <2>1, <2>3 DEF D!PushTail
  <2>5. PICK e \in Nat \ {0}, z \in Nat : e \in Nat \ {0} /\ e = 2 * c /\ z = 0 /\ z \in 0..(e - 1)
    BY <1>1
  <2>6. n + 1 \in 0..(e - 1) /\ n \in 0..(e - 1) /\ n + 1 \in 1..e /\ n + 1 = c
    BY ONLY c \in Nat \ {0}, n \in 0..(c - 1), <1>13, <2>5
  <2>7. tail' = n + 1
    BY <2>4, <2>5, <2>6
  <2>8. Cell(z, n + 1, e) = n
    <3>1. z + (n + 1) - 1 < e => Cell(z, n + 1, e) = z + (n + 1) - 1
      BY <2>5, <2>6, CellIndex
    <3> QED BY <2>5, <2>6, <3>1
  <2>9. Len(d) = e /\ d \in Seq(Cells)
    BY <2>3, <2>5
  <2>10. PICK k \in 1..e : k = n + 1 /\ k = Cell(z, n + 1, e) + 1
    BY <2>6, <2>8
  <2>11. PICK g \in Seq(Cells) : g = d /\ Len(g) = e
    BY <2>9
  <2>12. PICK f \in Seq(Cells) : f = [g EXCEPT ![k] = y] /\ Len(f) = e /\ AlikeBut(g, f, e, k) /\ f[k] = y
    <3>1. /\ [g EXCEPT ![k] = y] \in Seq(Cells)
          /\ Len([g EXCEPT ![k] = y]) = Len(g)
          /\ \A j \in 1..Len(g) : [g EXCEPT ![k] = y][j] = IF j = k THEN y ELSE g[j]
      BY <2>11, ExceptSeq
    <3>2. PICK dd \in Seq(Cells) : dd = [g EXCEPT ![k] = y]
      BY <3>1
    <3>3. Len(dd) = e /\ dd[k] = y /\ \A j \in 1..e : j # k => dd[j] = g[j]
      BY <2>11, <3>1, <3>2
    <3> QED BY <3>2, <3>3 DEF AlikeBut
  <2>13. data' = f
    BY <2>4, <2>10, <2>11, <2>12
  <2>14. Window(f, z, n + 1) = Append(Window(g, z, n), y)
    <3>1. Len(f) = e /\ Len(g) = e /\ AlikeBut(g, f, e, k) /\ f[k] = y /\ k = Cell(z, n + 1, e) + 1
      BY <2>10, <2>11, <2>12
    <3>2. z \in 0..(e - 1) /\ n \in 0..(e - 1)
      BY <2>5, <2>6
    <3> QED BY ONLY y \in Cells, <3>1, <3>2, e \in Nat \ {0}, g \in Seq(Cells), f \in Seq(Cells), k \in 1..e, WindowAppend
  <2>15. Span(z, n + 1, e) = n + 1
    BY <2>5, <2>6 DEF Span
  <2>16. Window(data', head', Span(head', tail', Len(data'))) = Append(Window(b, h, n), y)
    BY <2>3, <2>4, <2>5, <2>7, <2>11, <2>12, <2>13, <2>14, <2>15
  <2>17. head' = z /\ tail' \in 0..(e - 1) /\ e >= 2
    <3>1. e >= 2
      BY ONLY c \in Nat \ {0}, <2>5
    <3> QED BY <2>4, <2>5, <2>6, <2>7, <3>1
  <2>18. data' \in Seq(Cells) /\ Len(data') = e
    BY <2>12, <2>13
  <2> QED BY ONLY <1>11, <2>5, <2>16, <2>17, <2>18
<1> QED BY <1>12, <1>13

LEMMA PopIsLast ==
  ASSUME DequeInv, D!PopTail
  PROVE  DequeInv' /\ D!Sequence!PopTail
<1>1. PICK c \in Nat \ {0} : c = Len(data) /\ c >= 2
  BY DEF DequeInv, D!Cap
<1>2. PICK b \in Seq(Cells) : b = data
  BY DEF DequeInv
<1>3. PICK h \in 0..(c - 1) : h = head
  BY <1>1 DEF DequeInv, D!Cap
<1>4. PICK t \in 0..(c - 1) : t = tail
  BY <1>1 DEF DequeInv, D!Cap
<1>5. Len(b) = c
  BY <1>1, <1>2
<1>6. PICK n \in 0..(c - 1) : n = Span(h, t, c) /\ (n = 0 <=> h = t)
  <2>1. /\ Span(h, t, c) \in 0..(c - 1)
        /\ Span(h, t, c) = 0 <=> h = t
    BY SpanFacts
  <2> QED BY <2>1
<1>7. D!Cap = c /\ D!Count = n /\ D!Contents = Window(b, h, n)
  BY <1>1, <1>2, <1>3, <1>4, <1>6, DequeTerms
<1>8. /\ Window(b, h, n) \in Seq(Cells) /\ Len(Window(b, h, n)) = n
      /\ \A i \in 1..n : Window(b, h, n)[i] = b[Cell(h, i, c) + 1]
  BY ONLY <1>5, WindowShort, c \in Nat \ {0}, b \in Seq(Cells), h \in 0..(c - 1), n \in 0..(c - 1)
<1>11. CASE head = tail
  <2>1. out' = NIL /\ UNCHANGED <<data, head, tail>>
    BY <1>11 DEF D!PopTail
  <2>2. DequeInv' /\ D!Contents' = D!Contents
    BY <2>1 DEF DequeInv, D!Cap, D!Contents, D!Count, D!At
  <2>3. D!Contents = <<>>
    BY <1>3, <1>4, <1>6, <1>7, <1>8, <1>11
  <2> QED BY <2>1, <2>2, <2>3 DEF D!Sequence!PopTail
<1>12. CASE head # tail
  <2>1. /\ out' = b[((t - 1) % c) + 1]
        /\ data' = [b EXCEPT ![((t - 1) % c) + 1] = NIL]
        /\ tail' = (t - 1) % c /\ head' = h
    BY <1>2, <1>3, <1>4, <1>7, <1>12 DEF D!PopTail, D!At
  <2>2. /\ Span(h, (t - 1) % c, c) = n - 1 /\ (t - 1) % c = Cell(h, n, c)
        /\ (t - 1) % c \in 0..(c - 1)
    BY <1>3, <1>4, <1>6, <1>12, SpanMoves
  <2>3. n \in 1..c /\ n \in 1..n
    BY <1>3, <1>4, <1>6, <1>12
  <2>4. PICK k \in 1..c : k = ((t - 1) % c) + 1 /\ k = Cell(h, n, c) + 1
    BY <2>2
  <2>5. PICK d \in Seq(Cells) : d = [b EXCEPT ![k] = NIL] /\ Len(d) = c /\ AlikeBut(b, d, c, k)
    <3>1. NIL \in Cells
      BY DEF Cells
    <3> QED BY ONLY <1>5, <3>1, c \in Nat \ {0}, b \in Seq(Cells), k \in 1..c, StoreAlike
  <2>6. data' = d /\ Len(d) = c /\ AlikeBut(b, d, c, k) /\ k = Cell(h, n, c) + 1
    BY <2>1, <2>4, <2>5
  <2>7. Window(d, h, n - 1) = SubSeq(Window(b, h, n), 1, n - 1)
    BY ONLY <1>5, <2>3, <2>6, c \in Nat \ {0}, b \in Seq(Cells), d \in Seq(Cells), k \in 1..c,
            h \in 0..(c - 1), WindowDropLast
  <2>8. DequeInv'
    BY <1>1, <1>3, <2>1, <2>2, <2>5, <2>6 DEF DequeInv, D!Cap
  <2>9. D!Contents' = SubSeq(D!Contents, 1, Len(D!Contents) - 1)
    BY <1>6, <1>7, <1>8, <2>1, <2>2, <2>5, <2>6, <2>7, DequeTermsNext
  <2>10. Window(b, h, n)[n] = out'
    BY <1>8, <2>1, <2>2, <2>3
  <2>11. out' = D!Contents[Len(D!Contents)] /\ D!Contents # <<>>
    BY <1>7, <1>8, <2>3, <2>10
  <2> QED BY <2>8, <2>9, <2>11 DEF D!Sequence!PopTail
<1> QED BY <1>11, <1>12

LEMMA StealIsHead ==
  ASSUME DequeInv, D!StealHead
  PROVE  DequeInv' /\ D!Sequence!StealHead
<1>1. PICK c \in Nat \ {0} : c = Len(data) /\ c >= 2
  BY DEF DequeInv, D!Cap
<1>2. PICK b \in Seq(Cells) : b = data
  BY DEF DequeInv
<1>3. PICK h \in 0..(c - 1) : h = head
  BY <1>1 DEF DequeInv, D!Cap
<1>4. PICK t \in 0..(c - 1) : t = tail
  BY <1>1 DEF DequeInv, D!Cap
<1>5. Len(b) = c
  BY <1>1, <1>2
<1>6. PICK n \in 0..(c - 1) : n = Span(h, t, c) /\ (n = 0 <=> h = t)
  <2>1. /\ Span(h, t, c) \in 0..(c - 1)
        /\ Span(h, t, c) = 0 <=> h = t
    BY SpanFacts
  <2> QED BY <2>1
<1>7. D!Cap = c /\ D!Count = n /\ D!Contents = Window(b, h, n)
  BY <1>1, <1>2, <1>3, <1>4, <1>6, DequeTerms
<1>8. /\ Window(b, h, n) \in Seq(Cells) /\ Len(Window(b, h, n)) = n
      /\ \A i \in 1..n : Window(b, h, n)[i] = b[Cell(h, i, c) + 1]
  BY ONLY <1>5, WindowShort, c \in Nat \ {0}, b \in Seq(Cells), h \in 0..(c - 1), n \in 0..(c - 1)
<1>11. CASE head = tail
  <2>1. out' = NIL /\ UNCHANGED <<data, head, tail>>
    BY <1>11 DEF D!StealHead
  <2>2. DequeInv' /\ D!Contents' = D!Contents
    BY <2>1 DEF DequeInv, D!Cap, D!Contents, D!Count, D!At
  <2>3. D!Contents = <<>>
    BY <1>3, <1>4, <1>6, <1>7, <1>8, <1>11
  <2> QED BY <2>1, <2>2, <2>3 DEF D!Sequence!StealHead
<1>12. CASE head # tail
  <2>1. /\ out' = b[h + 1]
        /\ data' = [b EXCEPT ![h + 1] = NIL]
        /\ head' = (h + 1) % c /\ tail' = t
    BY <1>2, <1>3, <1>4, <1>7, <1>12 DEF D!StealHead, D!At
  <2>2. Span((h + 1) % c, t, c) = n - 1 /\ (h + 1) % c \in 0..(c - 1)
    BY <1>3, <1>4, <1>6, <1>12, SpanMoves
  <2>3. n \in 1..c /\ 1 \in 1..n /\ 1 \in 1..c
    BY <1>3, <1>4, <1>6, <1>12
  <2>4. PICK k \in 1..c : k = h + 1
    OBVIOUS
  <2>5. PICK d \in Seq(Cells) : d = [b EXCEPT ![k] = NIL] /\ Len(d) = c /\ AlikeBut(b, d, c, k)
    <3>1. NIL \in Cells
      BY DEF Cells
    <3> QED BY ONLY <1>5, <3>1, c \in Nat \ {0}, b \in Seq(Cells), k \in 1..c, StoreAlike
  <2>6. PICK g \in 0..(c - 1) : g = (h + 1) % c
    BY <2>2
  <2>7. Window(d, g, n - 1) = Tail(Window(b, h, n))
    <3>1. n \in 1..c /\ Len(d) = c /\ AlikeBut(b, d, c, k) /\ k = h + 1 /\ g = (h + 1) % c
      BY <2>3, <2>4, <2>5, <2>6
    <3> QED BY ONLY <1>5, <3>1, c \in Nat \ {0}, b \in Seq(Cells), d \in Seq(Cells), k \in 1..c,
            h \in 0..(c - 1), g \in 0..(c - 1), WindowDropFirst
  <2>8. DequeInv'
    BY <1>1, <1>4, <2>1, <2>2, <2>4, <2>5 DEF DequeInv, D!Cap
  <2>9. D!Contents' = Tail(D!Contents)
    BY <1>7, <2>1, <2>2, <2>4, <2>5, <2>6, <2>7, DequeTermsNext
  <2>10. Cell(h, 1, c) = h
    BY <2>3, CellIndex
  <2>11. Window(b, h, n)[1] = out'
    BY <1>8, <2>1, <2>3, <2>10
  <2>12. out' = Head(D!Contents) /\ D!Contents # <<>>
    BY <1>7, <1>8, <2>3, <2>11
  <2> QED BY <2>8, <2>9, <2>12 DEF D!Sequence!StealHead
<1> QED BY <1>11, <1>12

(* The circular buffer of a worker-deque, which wraps round and doubles     *)
(* itself, is to every caller the sequence of DequeSpec: each push, pop and *)
(* steal of mutable.lisp changes it, and answers, as that sequence would,   *)
(* whatever the initial capacity and however often it has grown.            *)
THEOREM DequeIsSequence ==
  ASSUME Capacity \in Nat \ {0, 1}
  PROVE  D!Spec => D!SequenceDeque
<1>1. D!Init => DequeInv /\ D!Sequence!Init
  <2> SUFFICES ASSUME D!Init PROVE DequeInv /\ D!Sequence!Init
    OBVIOUS
  <2>1. data = [i \in 1..Capacity |-> NIL] /\ head = 0 /\ tail = 0 /\ out = NIL
    BY DEF D!Init
  <2>2. data \in [1..Capacity -> Cells] /\ Len(data) = Capacity
    BY <2>1 DEF Cells
  <2>3. data \in Seq(Cells)
    BY <2>2
  <2>4. DequeInv
    BY <2>1, <2>2, <2>3 DEF DequeInv, D!Cap
  <2>5. D!Count = 0
    BY <2>1 DEF D!Count
  <2>6. D!Contents = <<>>
    BY <2>5 DEF D!Contents
  <2> QED BY <2>1, <2>4, <2>6 DEF D!Sequence!Init
<1>2. DequeInv /\ [D!Next]_D!vars => DequeInv' /\ [D!Sequence!Next]_D!Sequence!vars
  <2> SUFFICES ASSUME DequeInv, [D!Next]_D!vars
               PROVE  DequeInv' /\ [D!Sequence!Next]_D!Sequence!vars
    OBVIOUS
  <2>1. CASE \E x \in Items : D!PushTail(x)
    BY <2>1, PushIsAppend DEF D!Sequence!Next
  <2>2. CASE D!PopTail
    BY <2>2, PopIsLast DEF D!Sequence!Next
  <2>3. CASE D!StealHead
    BY <2>3, StealIsHead DEF D!Sequence!Next
  <2>4. CASE UNCHANGED D!vars
    BY <2>4 DEF D!vars, DequeInv, D!Cap, D!Sequence!vars, D!Contents, D!Count, D!At
  <2> QED BY <2>1, <2>2, <2>3, <2>4 DEF D!Next
<1> QED BY <1>1, <1>2, PTL DEF D!Spec, D!SequenceDeque, D!Sequence!Spec

-----------------------------------------------------------------------------
(* The pool. *)

(* i is somewhere in the deques q; no two positions of q hold the same item. *)
In(q, i) == \E w \in Workers : \E k \in 1..Len(q[w]) : q[w][k] = i
Apart(q) == \A v, w \in Workers : \A j \in 1..Len(q[v]), k \in 1..Len(q[w]) :
              q[v][j] = q[w][k] => v = w /\ j = k

(* An item that has been pushed is queued, with a worker, or done. *)
Placed(i) == In(deque, i) \/ (\E w \in Workers : work[w] = i) \/ i \in done

(* What a worker submits and waits for is the fork of the item it runs. *)
WorkerShape ==
  \A w \in Workers :
    /\ pc[w] # "client"
    /\ work[w] = NIL <=> pc[w] \in {"own", "steal", "asleep"}
    /\ pc[w] \in {"submit", "push", "notify"} => sub[w] = Fork[work[w]] /\ sub[w] # NIL
    /\ pc[w] \in {"wait", "blocked"} => want[w] = Fork[work[w]] /\ want[w] # NIL

(* What a client submits or waits for is the item before its position. *)
ClientShape ==
  \A c \in Clients :
    /\ pc[c] \in {"client", "submit", "push", "notify", "wait", "blocked"}
    /\ next[c] \in 1..(2 * Len(Roots[c]) + 1)
    /\ pc[c] \in {"submit", "push", "notify"} =>
         next[c] - 1 \in 1..Len(Roots[c]) /\ sub[c] = Roots[c][next[c] - 1]
    /\ pc[c] \in {"wait", "blocked"} =>
         next[c] - 1 - Len(Roots[c]) \in 1..Len(Roots[c]) /\ want[c] = Roots[c][next[c] - 1 - Len(Roots[c])]

(* The three places exclude each other. *)
Exclusive ==
  /\ Apart(deque)
  /\ \A w \in Workers : work[w] # NIL => ~In(deque, work[w]) /\ work[w] \notin done
  /\ \A i \in done : ~In(deque, i)
  /\ \A v, w \in Workers : work[v] # NIL /\ work[v] = work[w] => v = w

(* An item has been called once its worker is past the call, or it is done. *)
Called(i) == i \in done \/ \E w \in Workers : work[w] = i /\ pc[w] # "run"
RunsCount == \A i \in Items : runs[i] = IF Called(i) THEN 1 ELSE 0

(* A root is in the pool from its push on, and so is a forked item. *)
RootPushed(c, k) == k < next[c] /\ (pc[c] \in {"submit", "push"} => k # next[c] - 1)
RootsPlaced == \A c \in Clients : \A k \in 1..Len(Roots[c]) : Placed(Roots[c][k]) <=> RootPushed(c, k)
ForkPushed(i) == i \in done \/ \E w \in Workers : work[w] = i /\ pc[w] \in {"notify", "wait", "blocked", "finish"}
ForksPlaced == \A i \in Items : Fork[i] # NIL => (Placed(Fork[i]) <=> ForkPushed(i))

PoolInv == /\ TypeOK /\ WorkerShape /\ ClientShape /\ Exclusive
           /\ RunsCount /\ RootsPlaced /\ ForksPlaced /\ NoMissedCompletion

LEMMA TakeLast ==
  ASSUME deque \in [Workers -> Seq(Items)], Apart(deque), NEW w \in Workers, deque[w] # <<>>,
         deque' = [deque EXCEPT ![w] = SubSeq(deque[w], 1, Len(deque[w]) - 1)]
  PROVE  \E x \in Items :
           /\ x = deque[w][Len(deque[w])] /\ In(deque, x)
           /\ deque' \in [Workers -> Seq(Items)] /\ Apart(deque')
           /\ \A i : In(deque', i) <=> In(deque, i) /\ i # x
<1>0. PICK x : x = deque[w][Len(deque[w])]
  OBVIOUS
<1>1. PICK n \in Nat : n = Len(deque[w]) /\ n > 0
  <2>1. deque[w] \in Seq(Items) /\ Len(deque[w]) \in Nat
    OBVIOUS
  <2>2. Len(deque[w]) # 0
    BY <2>1, EmptySeq
  <2> QED BY <2>1, <2>2
<1>2. PICK s \in Seq(Items) : s = SubSeq(deque[w], 1, n - 1) /\ Len(s) = n - 1 /\ \A k \in 1..(n - 1) : s[k] = deque[w][k]
  <2>1. \A k \in 1..(n - 1) : deque[w][k] \in Items
    BY <1>1
  <2>2. n - 1 \in 0..n /\ deque[w] \in Seq(Items)
    BY <1>1
  <2>3. /\ SubSeq(deque[w], 1, n - 1) \in Seq(Items) /\ Len(SubSeq(deque[w], 1, n - 1)) = n - 1
        /\ \A k \in 1..(n - 1) : SubSeq(deque[w], 1, n - 1)[k] = deque[w][k]
    BY <1>1, <2>1, <2>2, SubSeqProperties
  <2> QED BY <2>3
<1>3. x \in Items /\ x = deque[w][n] /\ n \in 1..n
  BY <1>1, <1>0
<1>4. deque' = [deque EXCEPT ![w] = s] /\ deque' \in [Workers -> Seq(Items)]
  BY <1>1, <1>2
<1>5. deque'[w] = s /\ \A v \in Workers : v # w => deque'[v] = deque[v]
  BY <1>4
<1>6. ASSUME NEW v \in Workers, NEW k \in 1..Len(deque'[v])
      PROVE  k \in 1..Len(deque[v]) /\ deque'[v][k] = deque[v][k] /\ deque[v][k] # x
  <2>1. CASE v = w
    <3>1. k \in 1..(n - 1) /\ k \in 1..n /\ k # n
      BY <1>1, <1>2, <1>5, <2>1
    <3>2. deque[w][k] # deque[w][n]
      BY <1>1, <1>3, <3>1 DEF Apart
    <3> QED BY <1>1, <1>2, <1>3, <1>5, <2>1, <3>1, <3>2
  <2>2. CASE v # w
    <3>1. deque[v][k] # deque[w][n]
      BY <1>1, <1>3, <1>5, <2>2 DEF Apart
    <3> QED BY <1>3, <1>5, <2>2, <3>1
  <2> QED BY <2>1, <2>2
<1>7. ASSUME NEW v \in Workers, NEW k \in 1..Len(deque[v]), deque[v][k] # x
      PROVE  k \in 1..Len(deque'[v]) /\ deque'[v][k] = deque[v][k]
  <2>1. CASE v = w
    <3>1. k # n
      BY <1>3, <1>7, <2>1
    <3> QED BY <1>1, <1>2, <1>5, <2>1, <3>1
  <2>2. CASE v # w
    BY <1>5, <2>2
  <2> QED BY <2>1, <2>2
<1>8. Apart(deque')
  <2> SUFFICES ASSUME NEW v \in Workers, NEW u \in Workers,
                      NEW j \in 1..Len(deque'[v]), NEW k \in 1..Len(deque'[u]), deque'[v][j] = deque'[u][k]
               PROVE  v = u /\ j = k
    BY DEF Apart
  <2>1. j \in 1..Len(deque[v]) /\ k \in 1..Len(deque[u]) /\ deque[v][j] = deque[u][k]
    BY <1>6
  <2> QED BY <2>1 DEF Apart
<1>9. ASSUME NEW i PROVE In(deque', i) <=> In(deque, i) /\ i # x
  <2>1. In(deque', i) => In(deque, i) /\ i # x
    BY <1>6 DEF In
  <2>2. In(deque, i) /\ i # x => In(deque', i)
    BY <1>7 DEF In
  <2> QED BY <2>1, <2>2
<1>10. In(deque, x)
  BY <1>1, <1>3 DEF In
<1> QED BY <1>3, <1>4, <1>8, <1>9, <1>10, <1>0

LEMMA TakeHead ==
  ASSUME deque \in [Workers -> Seq(Items)], Apart(deque), NEW w \in Workers, deque[w] # <<>>,
         deque' = [deque EXCEPT ![w] = Tail(deque[w])]
  PROVE  \E x \in Items :
           /\ x = Head(deque[w]) /\ In(deque, x)
           /\ deque' \in [Workers -> Seq(Items)] /\ Apart(deque')
           /\ \A i : In(deque', i) <=> In(deque, i) /\ i # x
<1>0. PICK x : x = Head(deque[w])
  OBVIOUS
<1>1. PICK n \in Nat : n = Len(deque[w]) /\ n > 0
  <2>1. deque[w] \in Seq(Items) /\ Len(deque[w]) \in Nat
    OBVIOUS
  <2>2. Len(deque[w]) # 0
    BY <2>1, EmptySeq
  <2> QED BY <2>1, <2>2
<1>2. PICK s \in Seq(Items) : s = Tail(deque[w]) /\ Len(s) = n - 1 /\ \A k \in 1..(n - 1) : s[k] = deque[w][k + 1]
  <2>1. deque[w] \in Seq(Items) /\ deque[w] # <<>>
    OBVIOUS
  <2>2. /\ Tail(deque[w]) \in Seq(Items) /\ Len(Tail(deque[w])) = n - 1
        /\ \A k \in 1..(n - 1) : Tail(deque[w])[k] = deque[w][k + 1]
    BY <1>1, <2>1, HeadTailProperties
  <2> QED BY <2>2
<1>3. x \in Items /\ x = deque[w][1] /\ 1 \in 1..n
  BY <1>1, <1>0
<1>4. deque' = [deque EXCEPT ![w] = s] /\ deque' \in [Workers -> Seq(Items)]
  BY <1>2
<1>5. deque'[w] = s /\ \A v \in Workers : v # w => deque'[v] = deque[v]
  BY <1>4
<1> DEFINE Old(v, k) == IF v = w THEN k + 1 ELSE k
<1>6. ASSUME NEW v \in Workers, NEW k \in 1..Len(deque'[v])
      PROVE  Old(v, k) \in 1..Len(deque[v]) /\ deque'[v][k] = deque[v][Old(v, k)] /\ deque[v][Old(v, k)] # x
  <2>1. CASE v = w
    <3>1. k \in 1..(n - 1) /\ k + 1 \in 1..n /\ k + 1 # 1
      BY <1>1, <1>2, <1>5, <2>1
    <3>2. deque[w][k + 1] # deque[w][1]
      BY <1>1, <1>3, <3>1 DEF Apart
    <3> QED BY <1>1, <1>2, <1>3, <1>5, <2>1, <3>1, <3>2
  <2>2. CASE v # w
    <3>1. deque[v][k] # deque[w][1]
      BY <1>1, <1>3, <1>5, <2>2 DEF Apart
    <3> QED BY <1>3, <1>5, <2>2, <3>1
  <2> QED BY <2>1, <2>2
<1>7. ASSUME NEW v \in Workers, NEW k \in 1..Len(deque[v]), deque[v][k] # x
      PROVE  \E j \in 1..Len(deque'[v]) : deque'[v][j] = deque[v][k]
  <2>1. CASE v = w
    <3>1. k # 1
      BY <1>3, <1>7, <2>1
    <3>2. k - 1 \in 1..(n - 1) /\ (k - 1) + 1 = k
      BY <1>1, <2>1, <3>1
    <3>3. s[k - 1] = deque[w][k]
      BY <1>2, <3>2
    <3> QED BY <1>2, <1>5, <2>1, <3>2, <3>3
  <2>2. CASE v # w
    BY <1>5, <2>2
  <2> QED BY <2>1, <2>2
<1>8. Apart(deque')
  <2> SUFFICES ASSUME NEW v \in Workers, NEW u \in Workers, NEW j \in 1..Len(deque'[v]), NEW k \in 1..Len(deque'[u]),
                      deque'[v][j] = deque'[u][k]
               PROVE  v = u /\ j = k
    BY DEF Apart
  <2>1. /\ Old(v, j) \in 1..Len(deque[v]) /\ Old(u, k) \in 1..Len(deque[u])
        /\ deque[v][Old(v, j)] = deque[u][Old(u, k)]
    BY <1>6
  <2>2. v = u /\ Old(v, j) = Old(u, k)
    BY <2>1 DEF Apart
  <2> QED BY <1>4, <2>2
<1>9. ASSUME NEW i PROVE In(deque', i) <=> In(deque, i) /\ i # x
  <2>1. ASSUME In(deque', i) PROVE In(deque, i) /\ i # x
    <3>1. PICK v \in Workers : \E k \in 1..Len(deque'[v]) : deque'[v][k] = i
      BY <2>1 DEF In
    <3>2. PICK k \in 1..Len(deque'[v]) : deque'[v][k] = i
      BY <3>1
    <3>3. Old(v, k) \in 1..Len(deque[v]) /\ deque[v][Old(v, k)] = i /\ i # x
      BY ZenonT(30), <1>6, <3>2
    <3> QED BY <3>3 DEF In
  <2>2. ASSUME In(deque, i), i # x PROVE In(deque', i)
    <3>1. PICK v \in Workers : \E k \in 1..Len(deque[v]) : deque[v][k] = i
      BY <2>2 DEF In
    <3>2. PICK k \in 1..Len(deque[v]) : deque[v][k] = i
      BY <3>1
    <3>3. \E j \in 1..Len(deque'[v]) : deque'[v][j] = i
      BY <1>7, <2>2, <3>2
    <3> QED BY <3>3 DEF In
  <2> QED BY <2>1, <2>2
<1>10. In(deque, x)
  BY <1>1, <1>3 DEF In
<1> QED BY <1>3, <1>4, <1>8, <1>9, <1>10, <1>0

LEMMA PushItem ==
  ASSUME deque \in [Workers -> Seq(Items)], Apart(deque), NEW w \in Workers, NEW x \in Items,
         ~In(deque, x), deque' = [deque EXCEPT ![w] = Append(deque[w], x)]
  PROVE  /\ deque' \in [Workers -> Seq(Items)] /\ Apart(deque')
         /\ \A i : In(deque', i) <=> In(deque, i) \/ i = x
<1>1. PICK n \in Nat : n = Len(deque[w])
  OBVIOUS
<1>2. PICK s \in Seq(Items) : s = Append(deque[w], x) /\ Len(s) = n + 1 /\ s[n + 1] = x /\ \A k \in 1..n : s[k] = deque[w][k]
  <2>1. deque[w] \in Seq(Items)
    OBVIOUS
  <2>2. /\ Append(deque[w], x) \in Seq(Items) /\ Len(Append(deque[w], x)) = n + 1
        /\ Append(deque[w], x)[n + 1] = x
        /\ \A k \in 1..n : Append(deque[w], x)[k] = deque[w][k]
    BY <1>1, <2>1, AppendProperties
  <2> QED BY <2>2
<1>4. deque' = [deque EXCEPT ![w] = s] /\ deque' \in [Workers -> Seq(Items)]
  BY <1>2
<1>5. deque'[w] = s /\ \A v \in Workers : v # w => deque'[v] = deque[v]
  BY <1>4
<1>6. ASSUME NEW v \in Workers, NEW k \in 1..Len(deque'[v])
      PROVE  \/ v = w /\ k = n + 1 /\ deque'[v][k] = x
             \/ k \in 1..Len(deque[v]) /\ deque'[v][k] = deque[v][k] /\ deque'[v][k] # x
  <2>1. CASE v = w
    BY <1>1, <1>2, <1>5, <2>1 DEF In
  <2>2. CASE v # w
    BY <1>5, <2>2 DEF In
  <2> QED BY <2>1, <2>2
<1>7. ASSUME NEW v \in Workers, NEW k \in 1..Len(deque[v])
      PROVE  k \in 1..Len(deque'[v]) /\ deque'[v][k] = deque[v][k]
  BY <1>1, <1>2, <1>5
<1>8. Apart(deque')
  <2> SUFFICES ASSUME NEW v \in Workers, NEW u \in Workers, NEW j \in 1..Len(deque'[v]), NEW k \in 1..Len(deque'[u]),
                      deque'[v][j] = deque'[u][k]
               PROVE  v = u /\ j = k
    BY DEF Apart
  <2>1. CASE deque'[v][j] = x
    BY <1>6, <2>1
  <2>2. CASE deque'[v][j] # x
    BY <1>6, <2>2 DEF Apart
  <2> QED BY <2>1, <2>2
<1>9. n + 1 \in 1..Len(deque'[w]) /\ deque'[w][n + 1] = x
  BY <1>1, <1>2, <1>5
<1>10. ASSUME NEW i PROVE In(deque', i) <=> In(deque, i) \/ i = x
  <2>1. In(deque', i) => In(deque, i) \/ i = x
    BY <1>6 DEF In
  <2>2. In(deque, i) => In(deque', i)
    BY <1>7 DEF In
  <2>3. In(deque', x)
    BY <1>9 DEF In
  <2> QED BY <2>1, <2>2, <2>3
<1> QED BY <1>4, <1>8, <1>10

(* A step that leaves the items where they are. *)
LEMMA SameItems ==
  ASSUME PoolInv, UNCHANGED <<deque, work, done, runs>>,
         TypeOK', WorkerShape', ClientShape', NoMissedCompletion',
         \A w \in Workers : work[w] # NIL =>
           /\ pc'[w] = "run" <=> pc[w] = "run"
           /\ pc'[w] \in {"notify", "wait", "blocked", "finish"}
                <=> pc[w] \in {"notify", "wait", "blocked", "finish"},
         \A c \in Clients : \A k \in 1..Len(Roots[c]) : RootPushed(c, k)' <=> RootPushed(c, k)
  PROVE  PoolInv'
<1>1. \A i : Placed(i)' <=> Placed(i)
  BY DEF Placed, In
<1>2. \A i \in Items : (Called(i)' <=> Called(i)) /\ (ForkPushed(i)' <=> ForkPushed(i))
  BY PoolAssumption DEF Called, ForkPushed
<1>3. Exclusive'
  BY DEF PoolInv, Exclusive, Apart, In
<1>4. RunsCount'
  BY <1>2 DEF PoolInv, RunsCount
<1>5. RootsPlaced'
  BY <1>1 DEF PoolInv, RootsPlaced
<1>6. ForksPlaced'
  BY <1>1, <1>2 DEF PoolInv, ForksPlaced
<1> QED BY <1>3, <1>4, <1>5, <1>6 DEF PoolInv

LEMMA PoolInit == Init => PoolInv
<1> SUFFICES ASSUME Init PROVE PoolInv
  OBVIOUS
<1>1. /\ deque = [w \in Workers |-> <<>>] /\ work = [w \in Workers |-> NIL] /\ done = {}
      /\ pc = [t \in Threads |-> IF t \in Workers THEN "own" ELSE "client"]
      /\ next = [c \in Clients |-> 1] /\ runs = [i \in Items |-> 0]
  BY DEF Init
<1>2. TypeOK
  <2>1. 0 \in Workers /\ 0 \in 0..N
    BY PoolAssumption DEF Workers
  <2> QED BY <2>1 DEF Init, TypeOK, Threads
<1>3. \A i : ~In(deque, i)
  BY <1>1 DEF In
<1>4. \A i \in Items : ~Placed(i) /\ ~Called(i) /\ ~ForkPushed(i)
  BY <1>1, <1>3, PoolAssumption DEF Placed, Called, ForkPushed
<1>5. WorkerShape /\ NoMissedCompletion
  BY <1>1, PoolAssumption DEF WorkerShape, NoMissedCompletion, Threads
<1>6. \A c \in Clients : pc[c] = "client" /\ next[c] = 1 /\ Len(Roots[c]) \in Nat /\ Roots[c] \in Seq(Items)
  BY <1>1, PoolAssumption DEF Threads
<1>7. ClientShape
  BY <1>6 DEF ClientShape
<1>8. Exclusive
  BY <1>1, <1>3 DEF Exclusive, Apart
<1>9. RunsCount
  BY <1>1, <1>4 DEF RunsCount
<1>10. RootsPlaced
  BY <1>4, <1>6 DEF RootsPlaced, RootPushed
<1>11. ForksPlaced
  BY <1>4, PoolAssumption DEF ForksPlaced
<1> QED BY <1>2, <1>5, <1>7, <1>8, <1>9, <1>10, <1>11 DEF PoolInv

(* A worker that finds nothing, or goes to sleep. *)
LEMMA IdleKeeps ==
  ASSUME PoolInv, NEW w \in Workers, NEW l \in {"own", "steal", "asleep"},
         pc[w] \in {"own", "steal", "asleep"}, pc' = [pc EXCEPT ![w] = l],
         start' \in [Workers -> Workers], turn' \in [Workers -> 0..N],
         UNCHANGED <<deque, counter, work, sub, idx, want, next, done, runs>>
  PROVE  PoolInv'
<1>1. w \in Threads /\ w \notin Clients
  BY PoolAssumption DEF Threads
<1>2. pc \in [Threads -> {"own", "steal", "asleep", "run", "finish", "submit", "push",
                         "notify", "wait", "blocked", "client"}]
  BY DEF PoolInv, TypeOK
<1>3. pc'[w] = l /\ \A t \in Threads : t # w => pc'[t] = pc[t]
  BY <1>1, <1>2
<1>4. TypeOK'
  BY <1>2 DEF PoolInv, TypeOK
<1>5. WorkerShape'
  BY <1>3 DEF PoolInv, WorkerShape, Threads
<1>6. \A c \in Clients : pc'[c] = pc[c]
  BY <1>1, <1>3 DEF Threads
<1>7. ClientShape'
  BY <1>6 DEF PoolInv, ClientShape
<1>8. NoMissedCompletion'
  BY <1>3 DEF PoolInv, NoMissedCompletion
<1>9. \A u \in Workers : work[u] # NIL => pc'[u] = pc[u]
  BY <1>3 DEF PoolInv, WorkerShape, Threads
<1>10. \A c \in Clients : \A k \in 1..Len(Roots[c]) : RootPushed(c, k)' <=> RootPushed(c, k)
  BY <1>6 DEF RootPushed
<1> QED BY <1>4, <1>5, <1>7, <1>8, <1>9, <1>10, SameItems

(* A worker takes item x, from its own deque or from another's. *)
LEMMA TakeKeeps ==
  ASSUME PoolInv, NEW w \in Workers, NEW x \in Items,
         pc[w] \in {"own", "steal"}, pc' = [pc EXCEPT ![w] = "run"], work' = [work EXCEPT ![w] = x],
         deque' \in [Workers -> Seq(Items)], Apart(deque'), In(deque, x),
         \A i : In(deque', i) <=> In(deque, i) /\ i # x,
         UNCHANGED <<start, turn, counter, sub, idx, want, next, done, runs>>
  PROVE  PoolInv'
<1>1. w \in Threads /\ w \notin Clients /\ x # NIL
  BY PoolAssumption DEF Threads
<1>2. pc \in [Threads -> {"own", "steal", "asleep", "run", "finish", "submit", "push",
                         "notify", "wait", "blocked", "client"}] /\ work \in [Workers -> Items \cup {NIL}]
  BY DEF PoolInv, TypeOK
<1>3. pc'[w] = "run" /\ \A t \in Threads : t # w => pc'[t] = pc[t]
  BY <1>1, <1>2
<1>4. work'[w] = x /\ work[w] = NIL /\ \A v \in Workers : v # w => work'[v] = work[v]
  BY <1>2 DEF PoolInv, WorkerShape
<1>5. \A v \in Workers : v \in Threads
  BY DEF Threads
<1>6. \A c \in Clients : pc'[c] = pc[c]
  BY <1>1, <1>3 DEF Threads
<1>7. TypeOK'
  BY <1>2 DEF PoolInv, TypeOK
<1>8. WorkerShape'
  BY <1>1, <1>3, <1>4, <1>5 DEF PoolInv, WorkerShape
<1>9. ClientShape'
  BY <1>6 DEF PoolInv, ClientShape
<1>10. NoMissedCompletion'
  BY <1>3 DEF PoolInv, NoMissedCompletion
<1>11. x \notin done /\ \A v \in Workers : work[v] # x
  BY <1>1 DEF PoolInv, Exclusive
<1>12. Exclusive'
  BY <1>4, <1>11 DEF PoolInv, Exclusive
<1>13. \A i \in Items : Placed(i)' <=> Placed(i)
  BY <1>4, PoolAssumption DEF Placed
<1>14. \A i \in Items : Called(i)' <=> Called(i)
  BY <1>3, <1>4, <1>5, PoolAssumption DEF Called
<1>15. \A i \in Items : ForkPushed(i)' <=> ForkPushed(i)
  BY <1>3, <1>4, <1>5, PoolAssumption DEF ForkPushed
<1>16. RunsCount'
  BY <1>14 DEF PoolInv, RunsCount
<1>17. RootsPlaced'
  <2>1. \A c \in Clients : \A k \in 1..Len(Roots[c]) :
          Roots[c][k] \in Items /\ (RootPushed(c, k)' <=> RootPushed(c, k))
    BY <1>6, PoolAssumption DEF RootPushed
  <2> QED BY <1>13, <2>1 DEF PoolInv, RootsPlaced
<1>18. ForksPlaced'
  BY <1>13, <1>15, PoolAssumption DEF PoolInv, ForksPlaced
<1> QED BY <1>7, <1>8, <1>9, <1>10, <1>12, <1>16, <1>17, <1>18 DEF PoolInv

LEMMA PopOwnKeeps == ASSUME PoolInv, NEW w \in Workers, PopOwn(w) PROVE PoolInv'
<1>1. deque \in [Workers -> Seq(Items)] /\ Apart(deque) /\ 0 \in 0..N
      /\ start \in [Workers -> Workers] /\ turn \in [Workers -> 0..N]
  BY PoolAssumption DEF PoolInv, TypeOK, Exclusive
<1>2. CASE deque[w] # <<>>
  <2>1. /\ pc[w] = "own" /\ pc' = [pc EXCEPT ![w] = "run"]
        /\ work' = [work EXCEPT ![w] = deque[w][Len(deque[w])]]
        /\ deque' = [deque EXCEPT ![w] = SubSeq(deque[w], 1, Len(deque[w]) - 1)]
        /\ UNCHANGED <<start, turn, counter, sub, idx, want, next, done, runs>>
    BY <1>2 DEF PopOwn, Goto
  <2>2. PICK x \in Items :
          /\ x = deque[w][Len(deque[w])] /\ In(deque, x)
          /\ deque' \in [Workers -> Seq(Items)] /\ Apart(deque')
          /\ \A i : In(deque', i) <=> In(deque, i) /\ i # x
    BY <1>1, <1>2, <2>1, TakeLast
  <2>3. work' = [work EXCEPT ![w] = x] /\ pc[w] \in {"own", "steal"}
    BY <2>1, <2>2
  <2> QED BY ONLY PoolInv, w \in Workers, x \in Items, <2>1, <2>2, <2>3, TakeKeeps
<1>3. CASE deque[w] = <<>>
  <2>1. /\ pc[w] = "own" /\ pc' = [pc EXCEPT ![w] = "steal"]
        /\ \E s \in Workers : start' = [start EXCEPT ![w] = s]
        /\ turn' = [turn EXCEPT ![w] = 0]
        /\ UNCHANGED <<deque, counter, work, sub, idx, want, next, done, runs>>
    BY <1>3 DEF PopOwn, Goto
  <2>2. start' \in [Workers -> Workers] /\ turn' \in [Workers -> 0..N]
    BY <1>1, <2>1
  <2> QED BY <2>1, <2>2, IdleKeeps
<1> QED BY <1>2, <1>3

LEMMA TryStealKeeps == ASSUME PoolInv, NEW w \in Workers, TrySteal(w) PROVE PoolInv'
<1>1. deque \in [Workers -> Seq(Items)] /\ Apart(deque)
      /\ start \in [Workers -> Workers] /\ turn \in [Workers -> 0..N] /\ pc[w] = "steal" /\ turn[w] < N
  BY DEF PoolInv, TypeOK, Exclusive, TrySteal
<1>2. PICK v \in Workers : v = (start[w] + turn[w]) % N
  BY <1>1, PoolAssumption DEF Workers
<1>3. CASE v # w /\ deque[v] # <<>>
  <2>1. /\ pc' = [pc EXCEPT ![w] = "run"]
        /\ work' = [work EXCEPT ![w] = Head(deque[v])]
        /\ deque' = [deque EXCEPT ![v] = Tail(deque[v])]
        /\ UNCHANGED <<start, turn, counter, sub, idx, want, next, done, runs>>
    BY <1>2, <1>3 DEF TrySteal, Goto
  <2>2. PICK x \in Items :
          /\ x = Head(deque[v]) /\ In(deque, x)
          /\ deque' \in [Workers -> Seq(Items)] /\ Apart(deque')
          /\ \A i : In(deque', i) <=> In(deque, i) /\ i # x
    BY <1>1, <1>3, <2>1, TakeHead
  <2>3. work' = [work EXCEPT ![w] = x] /\ pc[w] \in {"own", "steal"}
    BY <1>1, <2>1, <2>2
  <2> QED BY ONLY PoolInv, w \in Workers, x \in Items, <2>1, <2>2, <2>3, TakeKeeps
<1>4. CASE ~(v # w /\ deque[v] # <<>>)
  <2>1. /\ turn' = [turn EXCEPT ![w] = turn[w] + 1]
        /\ UNCHANGED <<deque, counter, pc, work, start, sub, idx, want, next, done, runs>>
    BY <1>2, <1>4 DEF TrySteal
  <2>2. turn[w] + 1 \in 0..N
    BY <1>1, PoolAssumption
  <2>3. turn' \in [Workers -> 0..N]
    BY <1>1, <2>1, <2>2
  <2>4. pc' = [pc EXCEPT ![w] = "steal"]
    BY <1>1, <2>1 DEF PoolInv, TypeOK
  <2> QED BY <1>1, <2>1, <2>3, <2>4, IdleKeeps
<1> QED BY <1>3, <1>4

LEMMA SleepKeeps == ASSUME PoolInv, NEW w \in Workers, Sleep(w) PROVE PoolInv'
<1>1. /\ pc[w] = "steal" /\ pc' = [pc EXCEPT ![w] = "asleep"]
      /\ start' = [start EXCEPT ![w] = 0] /\ turn' = [turn EXCEPT ![w] = 0]
      /\ UNCHANGED <<deque, counter, work, sub, idx, want, next, done, runs>>
  BY DEF Sleep, Goto
<1>2. start \in [Workers -> Workers] /\ turn \in [Workers -> 0..N] /\ 0 \in Workers /\ 0 \in 0..N
  <2>1. 0 \in Workers /\ 0 \in 0..N
    BY PoolAssumption DEF Workers
  <2> QED BY <2>1 DEF PoolInv, TypeOK
<1>3. start' \in [Workers -> Workers] /\ turn' \in [Workers -> 0..N]
  BY <1>1, <1>2
<1> QED BY <1>1, <1>3, IdleKeeps

LEMMA CallKeeps == ASSUME PoolInv, NEW w \in Workers, CallWork(w) PROVE PoolInv'
<1>1. /\ pc[w] = "run" /\ runs' = [runs EXCEPT ![work[w]] = runs[work[w]] + 1]
      /\ \/ /\ Fork[work[w]] # NIL /\ sub' = [sub EXCEPT ![w] = Fork[work[w]]]
            /\ pc' = [pc EXCEPT ![w] = "submit"]
         \/ /\ Fork[work[w]] = NIL /\ sub' = sub /\ pc' = [pc EXCEPT ![w] = "finish"]
      /\ start' = [start EXCEPT ![w] = 0] /\ turn' = [turn EXCEPT ![w] = 0]
      /\ UNCHANGED <<deque, counter, work, idx, want, next, done>>
  BY DEF CallWork, Goto
<1>2. PICK j \in Items : j = work[w]
  <2>1. work \in [Workers -> Items \cup {NIL}]
    BY DEF PoolInv, TypeOK
  <2>2. work[w] # NIL
    BY <1>1 DEF PoolInv, WorkerShape
  <2> QED BY <2>1, <2>2
<1>3. /\ pc \in [Threads -> {"own", "steal", "asleep", "run", "finish", "submit", "push",
                         "notify", "wait", "blocked", "client"}]
      /\ runs \in [Items -> Nat] /\ sub \in [Threads -> Items \cup {NIL}]
      /\ start \in [Workers -> Workers] /\ turn \in [Workers -> 0..N]
  BY DEF PoolInv, TypeOK
<1>4. w \in Threads /\ w \notin Clients /\ 0 \in Workers /\ 0 \in 0..N
      /\ Fork[j] \in Items \cup {NIL} /\ NIL \notin Items
  BY PoolAssumption DEF Threads, Workers
<1>5. TypeOK'
  <2>1. pc' \in [Threads -> {"own", "steal", "asleep", "run", "finish", "submit", "push",
                             "notify", "wait", "blocked", "client"}]
    BY <1>1, <1>3
  <2>2. sub' \in [Threads -> Items \cup {NIL}] /\ runs' \in [Items -> Nat]
    BY <1>1, <1>2, <1>3, <1>4
  <2>3. start' \in [Workers -> Workers] /\ turn' \in [Workers -> 0..N]
    BY <1>1, <1>3, <1>4
  <2> QED BY <1>1, <2>1, <2>2, <2>3 DEF PoolInv, TypeOK
<1>6. /\ pc'[w] \in {"submit", "finish"} /\ \A t \in Threads : t # w => pc'[t] = pc[t] /\ sub'[t] = sub[t]
      /\ pc'[w] = "submit" => Fork[j] # NIL /\ sub'[w] = Fork[j]
      /\ pc'[w] = "finish" => Fork[j] = NIL
  BY <1>1, <1>2, <1>3, <1>4
<1>7. \A v \in Workers : v \in Threads
  BY DEF Threads
<1>8. \A c \in Clients : pc'[c] = pc[c] /\ sub'[c] = sub[c]
  BY <1>4, <1>6 DEF Threads
<1>9. WorkerShape'
  BY <1>1, <1>2, <1>4, <1>6, <1>7 DEF PoolInv, WorkerShape
<1>10. ClientShape'
  BY <1>1, <1>8 DEF PoolInv, ClientShape
<1>11. NoMissedCompletion'
  BY <1>1, <1>6 DEF PoolInv, NoMissedCompletion
<1>12. Exclusive'
  BY <1>1 DEF PoolInv, Exclusive, Apart, In
<1>13. j \notin done /\ \A v \in Workers : v # w => work[v] # j
  BY <1>2, <1>4 DEF PoolInv, Exclusive
<1>14. ~Called(j) /\ Called(j)'
  BY <1>1, <1>2, <1>6, <1>13 DEF Called
<1>15. \A i \in Items : i # j => (Called(i)' <=> Called(i))
  BY <1>1, <1>2, <1>6, <1>7 DEF Called
<1>16. RunsCount'
  <2>1. runs[j] = 0 /\ runs'[j] = 1
    BY <1>1, <1>2, <1>3, <1>14 DEF PoolInv, RunsCount
  <2>2. \A i \in Items : i # j => runs'[i] = runs[i]
    BY <1>1, <1>2, <1>3
  <2> QED BY <1>14, <1>15, <2>1, <2>2 DEF PoolInv, RunsCount
<1>17. \A i : Placed(i)' <=> Placed(i)
  BY <1>1 DEF Placed, In
<1>18. RootsPlaced'
  BY <1>1, <1>8, <1>17 DEF PoolInv, RootsPlaced, RootPushed
<1>19. \A i \in Items : Fork[i] # NIL => (ForkPushed(i)' <=> ForkPushed(i))
  BY <1>1, <1>2, <1>6, <1>7, <1>13 DEF ForkPushed
<1>20. ForksPlaced'
  BY <1>17, <1>19 DEF PoolInv, ForksPlaced
<1> QED BY <1>5, <1>9, <1>10, <1>11, <1>12, <1>16, <1>18, <1>20 DEF PoolInv

LEMMA TakeIndexKeeps == ASSUME PoolInv, NEW t \in Threads, TakeIndex(t) PROVE PoolInv'
<1>1. /\ pc[t] = "submit" /\ pc' = [pc EXCEPT ![t] = "push"]
      /\ idx' = [idx EXCEPT ![t] = counter % N] /\ counter' = counter + 1
      /\ UNCHANGED <<deque, work, start, turn, sub, want, next, done, runs>>
  BY DEF TakeIndex, Goto
<1>2. /\ pc \in [Threads -> {"own", "steal", "asleep", "run", "finish", "submit", "push",
                         "notify", "wait", "blocked", "client"}]
      /\ counter \in Nat /\ idx \in [Threads -> Workers] /\ counter % N \in Workers
  <2>1. /\ pc \in [Threads -> {"own", "steal", "asleep", "run", "finish", "submit", "push",
                           "notify", "wait", "blocked", "client"}]
        /\ counter \in Nat /\ idx \in [Threads -> Workers]
    BY DEF PoolInv, TypeOK
  <2>2. counter % N \in Workers
    BY <2>1, PoolAssumption DEF Workers
  <2> QED BY <2>1, <2>2
<1>3. pc'[t] = "push" /\ \A u \in Threads : u # t => pc'[u] = pc[u]
  BY <1>1, <1>2
<1>4. TypeOK'
  <2>1. pc' \in [Threads -> {"own", "steal", "asleep", "run", "finish", "submit", "push",
                             "notify", "wait", "blocked", "client"}]
    BY <1>1, <1>2
  <2>2. counter' \in Nat /\ idx' \in [Threads -> Workers]
    BY <1>1, <1>2
  <2> QED BY <1>1, <2>1, <2>2 DEF PoolInv, TypeOK
<1>5. (\A w \in Workers : w \in Threads) /\ (\A c \in Clients : c \in Threads)
  BY DEF Threads
<1>6. WorkerShape'
  BY <1>1, <1>3, <1>5 DEF PoolInv, WorkerShape
<1>7. ClientShape'
  BY <1>1, <1>3, <1>5 DEF PoolInv, ClientShape
<1>8. NoMissedCompletion'
  BY <1>1, <1>3 DEF PoolInv, NoMissedCompletion
<1>9. \A w \in Workers :
        /\ pc'[w] = "run" <=> pc[w] = "run"
        /\ pc'[w] \in {"notify", "wait", "blocked", "finish"}
             <=> pc[w] \in {"notify", "wait", "blocked", "finish"}
  BY <1>1, <1>3, <1>5
<1>10. \A c \in Clients : \A k \in 1..Len(Roots[c]) : RootPushed(c, k)' <=> RootPushed(c, k)
  BY <1>1, <1>3, <1>5 DEF RootPushed
<1> QED BY <1>1, <1>4, <1>6, <1>7, <1>8, <1>9, <1>10, SameItems

(* No thread submits what is in the pool already, and no two the same item. *)
LEMMA SubmitsFresh ==
  ASSUME PoolInv, NEW t \in Threads, pc[t] \in {"submit", "push"}
  PROVE  sub[t] \in Items /\ ~Placed(sub[t])
<1>1. CASE t \in Workers
  <2>1. work[t] \in Items /\ sub[t] = Fork[work[t]] /\ sub[t] # NIL
    <3>1. work \in [Workers -> Items \cup {NIL}]
      BY DEF PoolInv, TypeOK
    <3>2. work[t] # NIL /\ sub[t] = Fork[work[t]] /\ sub[t] # NIL
      BY <1>1 DEF PoolInv, WorkerShape
    <3> QED BY <1>1, <3>1, <3>2
  <2>2. work[t] \notin done /\ \A w \in Workers : work[w] = work[t] => w = t
    BY <1>1, <2>1, PoolAssumption DEF PoolInv, Exclusive
  <2>3. ~ForkPushed(work[t])
    BY <2>2 DEF ForkPushed
  <2> QED BY <2>1, <2>3, PoolAssumption DEF PoolInv, ForksPlaced
<1>2. CASE t \in Clients
  <2>1. next[t] - 1 \in 1..Len(Roots[t]) /\ sub[t] = Roots[t][next[t] - 1]
    BY <1>2 DEF PoolInv, ClientShape
  <2>2. Roots[t] \in Seq(Items)
    BY <1>2, PoolAssumption
  <2>3. ~RootPushed(t, next[t] - 1)
    BY DEF RootPushed
  <2>4. ~Placed(Roots[t][next[t] - 1])
    BY <1>2, <2>1, <2>3 DEF PoolInv, RootsPlaced
  <2> QED BY <2>1, <2>2, <2>4
<1> QED BY <1>1, <1>2 DEF Threads

LEMMA PushKeeps == ASSUME PoolInv, NEW t \in Threads, PushWork(t) PROVE PoolInv'
<1>1. /\ pc[t] = "push" /\ pc' = [pc EXCEPT ![t] = "notify"]
      /\ deque' = [deque EXCEPT ![idx[t]] = Append(deque[idx[t]], sub[t])]
      /\ UNCHANGED <<counter, work, start, turn, sub, idx, want, next, done, runs>>
  BY DEF PushWork, Goto
<1>2. /\ pc \in [Threads -> {"own", "steal", "asleep", "run", "finish", "submit", "push",
                         "notify", "wait", "blocked", "client"}]
      /\ deque \in [Workers -> Seq(Items)] /\ Apart(deque)
  BY DEF PoolInv, TypeOK, Exclusive
<1>3. PICK x \in Items : x = sub[t] /\ ~Placed(x)
  BY <1>1, SubmitsFresh
<1>4. PICK v \in Workers : v = idx[t]
  BY DEF PoolInv, TypeOK
<1>5. /\ deque' \in [Workers -> Seq(Items)] /\ Apart(deque')
      /\ \A i : In(deque', i) <=> In(deque, i) \/ i = x
  <2>1. ~In(deque, x) /\ deque' = [deque EXCEPT ![v] = Append(deque[v], x)]
    BY <1>1, <1>3, <1>4 DEF Placed
  <2> QED BY <1>2, <2>1, PushItem
<1>6. pc'[t] = "notify" /\ \A u \in Threads : u # t => pc'[u] = pc[u]
  BY <1>1, <1>2
<1>7. (\A w \in Workers : w \in Threads) /\ (\A c \in Clients : c \in Threads) /\ NIL \notin Items
      /\ \A w \in Workers : w \notin Clients
  BY PoolAssumption DEF Threads
<1>8. TypeOK'
  <2>1. pc' \in [Threads -> {"own", "steal", "asleep", "run", "finish", "submit", "push",
                             "notify", "wait", "blocked", "client"}]
    BY <1>1, <1>2
  <2> QED BY <1>1, <1>5, <2>1 DEF PoolInv, TypeOK
<1>9. WorkerShape'
  BY <1>1, <1>6, <1>7 DEF PoolInv, WorkerShape
<1>10. ClientShape'
  BY <1>1, <1>6, <1>7 DEF PoolInv, ClientShape
<1>11. NoMissedCompletion'
  BY <1>1, <1>6 DEF PoolInv, NoMissedCompletion
<1>12. x \notin done /\ \A w \in Workers : work[w] # x
  BY <1>3 DEF Placed
<1>13. Exclusive'
  BY <1>1, <1>5, <1>12 DEF PoolInv, Exclusive
<1>14. \A i : Called(i)' <=> Called(i)
  BY <1>1, <1>6, <1>7 DEF Called
<1>15. RunsCount'
  BY <1>1, <1>14 DEF PoolInv, RunsCount
<1>16. \A i : Placed(i)' <=> Placed(i) \/ i = x
  BY <1>1, <1>5 DEF Placed
<1>17. ASSUME NEW c \in Clients, NEW k \in 1..Len(Roots[c])
       PROVE  RootPushed(c, k)' <=> RootPushed(c, k) \/ Roots[c][k] = x
  <2>1. CASE t \in Workers
    <3>1. work[t] \in Items /\ x = Fork[work[t]]
      <4>1. work \in [Workers -> Items \cup {NIL}]
        BY DEF PoolInv, TypeOK
      <4>2. work[t] # NIL /\ x = Fork[work[t]]
        BY <1>1, <1>3, <2>1 DEF PoolInv, WorkerShape
      <4> QED BY <2>1, <4>1, <4>2
    <3>2. Roots[c][k] # x
      BY <3>1, FreshItems
    <3>3. pc'[c] = pc[c]
      BY <1>6, <1>7, <2>1
    <3> QED BY <1>1, <3>2, <3>3 DEF RootPushed
  <2>2. CASE t \in Clients
    <3>1. next[t] - 1 \in 1..Len(Roots[t]) /\ x = Roots[t][next[t] - 1] /\ next[t] \in Nat
      BY <1>1, <1>3, <2>2 DEF PoolInv, ClientShape, TypeOK
    <3>2. Roots[c][k] = x <=> c = t /\ k = next[t] - 1
      BY <2>2, <3>1, FreshItems
    <3>3. CASE c = t
      BY <1>1, <1>6, <3>1, <3>2, <3>3 DEF RootPushed
    <3>4. CASE c # t
      BY <1>1, <1>6, <1>7, <3>2, <3>4 DEF RootPushed
    <3> QED BY <3>3, <3>4
  <2> QED BY <2>1, <2>2 DEF Threads
<1>18. ASSUME NEW i \in Items, Fork[i] # NIL
       PROVE  ForkPushed(i)' <=> ForkPushed(i) \/ Fork[i] = x
  <2>1. CASE t \in Workers
    <3>1. work[t] \in Items /\ x = Fork[work[t]]
      <4>1. work \in [Workers -> Items \cup {NIL}]
        BY DEF PoolInv, TypeOK
      <4>2. work[t] # NIL /\ x = Fork[work[t]]
        BY <1>1, <1>3, <2>1 DEF PoolInv, WorkerShape
      <4> QED BY <2>1, <4>1, <4>2
    <3>2. Fork[i] = x <=> i = work[t]
      BY <1>18, <3>1, FreshItems
    <3>3. \A w \in Workers : work[w] = i => (w = t <=> i = work[t])
      BY <1>7, <2>1, <3>1 DEF PoolInv, Exclusive
    <3> QED BY <1>1, <1>6, <1>7, <2>1, <3>2, <3>3 DEF ForkPushed
  <2>2. CASE t \in Clients
    <3>1. next[t] - 1 \in 1..Len(Roots[t]) /\ x = Roots[t][next[t] - 1]
      BY <1>1, <1>3, <2>2 DEF PoolInv, ClientShape
    <3>2. Fork[i] # x
      BY <2>2, <3>1, FreshItems
    <3>3. \A w \in Workers : pc'[w] = pc[w]
      BY <1>6, <1>7, <2>2
    <3> QED BY <1>1, <3>2, <3>3 DEF ForkPushed
  <2> QED BY <2>1, <2>2 DEF Threads
<1>19. RootsPlaced'
  BY <1>16, <1>17 DEF PoolInv, RootsPlaced
<1>20. ForksPlaced'
  BY <1>16, <1>18 DEF PoolInv, ForksPlaced
<1> QED BY <1>8, <1>9, <1>10, <1>11, <1>13, <1>15, <1>19, <1>20 DEF PoolInv

(* No two threads wait for the same item. *)
LEMMA WaitersApart ==
  ASSUME PoolInv, NEW t \in Threads, NEW u \in Threads,
         pc[t] \in {"wait", "blocked"}, pc[u] \in {"wait", "blocked"}, want[t] = want[u]
  PROVE  t = u
<1>1. \A w \in Workers : pc[w] \in {"wait", "blocked"} =>
        work[w] \in Items /\ want[w] = Fork[work[w]] /\ want[w] # NIL
  <2>1. work \in [Workers -> Items \cup {NIL}]
    BY DEF PoolInv, TypeOK
  <2>2. \A w \in Workers : pc[w] \in {"wait", "blocked"} =>
          work[w] # NIL /\ want[w] = Fork[work[w]] /\ want[w] # NIL
    BY DEF PoolInv, WorkerShape
  <2> QED BY <2>1, <2>2
<1>2. \A c \in Clients : pc[c] \in {"wait", "blocked"} =>
        \E k \in 1..Len(Roots[c]) : want[c] = Roots[c][k]
  BY DEF PoolInv, ClientShape
<1>3. CASE t \in Workers /\ u \in Workers
  <2>1. work[t] = work[u] /\ work[t] # NIL
    BY <1>1, <1>3, FreshItems, PoolAssumption
  <2> QED BY <1>3, <2>1 DEF PoolInv, Exclusive
<1>4. CASE t \in Workers /\ u \in Clients
  BY <1>1, <1>2, <1>4, FreshItems
<1>5. CASE t \in Clients /\ u \in Workers
  BY <1>1, <1>2, <1>5, FreshItems
<1>6. CASE t \in Clients /\ u \in Clients
  BY <1>2, <1>6, FreshItems
<1> QED BY <1>3, <1>4, <1>5, <1>6 DEF Threads

LEMMA NotifyKeeps == ASSUME PoolInv, NEW t \in Threads, NotifyIdle(t) PROVE PoolInv'
<1>1. /\ pc[t] = "notify"
      /\ want' = IF t \in Clients THEN want ELSE [want EXCEPT ![t] = sub[t]]
      /\ sub' = [sub EXCEPT ![t] = NIL] /\ idx' = [idx EXCEPT ![t] = 0]
      /\ UNCHANGED <<deque, counter, work, start, turn, next, done, runs>>
  BY DEF NotifyIdle
<1>2. /\ pc \in [Threads -> {"own", "steal", "asleep", "run", "finish", "submit", "push",
                         "notify", "wait", "blocked", "client"}]
      /\ sub \in [Threads -> Items \cup {NIL}] /\ want \in [Threads -> Items \cup {NIL}]
      /\ idx \in [Threads -> Workers]
  BY DEF PoolInv, TypeOK
<1>3. (\A w \in Workers : w \in Threads) /\ (\A c \in Clients : c \in Threads) /\ 0 \in Workers
      /\ \A w \in Workers : w \notin Clients
  <2>1. 0 \in Workers
    BY PoolAssumption DEF Workers
  <2> QED BY <2>1, PoolAssumption DEF Threads
<1>4. /\ pc' \in [Threads -> {"own", "steal", "asleep", "run", "finish", "submit", "push",
                             "notify", "wait", "blocked", "client"}]
      /\ pc'[t] = IF t \in Clients THEN "client" ELSE "wait"
      /\ \A u \in Threads : u # t => pc'[u] = pc[u] \/ (u \in Workers /\ pc[u] = "asleep" /\ pc'[u] = "own")
  <2> DEFINE rest == IF t \in Clients THEN "client" ELSE "wait"
  <2>1. CASE pc' = [pc EXCEPT ![t] = rest]
    BY <1>2, <2>1
  <2>2. CASE \E w \in Workers : pc[w] = "asleep" /\ pc' = [pc EXCEPT ![t] = rest, ![w] = "own"]
    <3>1. PICK w \in Workers : pc[w] = "asleep" /\ pc' = [pc EXCEPT ![t] = rest, ![w] = "own"]
      BY <2>2
    <3>2. w # t /\ w \in Threads
      BY <1>1, <1>3, <3>1
    <3> QED BY <1>2, <3>1, <3>2
  <2> QED BY <2>1, <2>2 DEF NotifyIdle, Goto
<1>5. /\ \A u \in Threads : u # t => sub'[u] = sub[u] /\ want'[u] = want[u]
      /\ t \in Workers => want'[t] = sub[t]
  BY <1>1, <1>2, <1>3
<1>6. TypeOK'
  <2>1. sub' \in [Threads -> Items \cup {NIL}] /\ idx' \in [Threads -> Workers]
        /\ want' \in [Threads -> Items \cup {NIL}]
    BY <1>1, <1>2, <1>3
  <2> QED BY <1>1, <1>4, <2>1 DEF PoolInv, TypeOK
<1>7. WorkerShape'
  <2> SUFFICES ASSUME NEW w \in Workers
      PROVE  /\ pc'[w] # "client"
             /\ work'[w] = NIL <=> pc'[w] \in {"own", "steal", "asleep"}
             /\ pc'[w] \in {"submit", "push", "notify"} => sub'[w] = Fork[work'[w]] /\ sub'[w] # NIL
             /\ pc'[w] \in {"wait", "blocked"} => want'[w] = Fork[work'[w]] /\ want'[w] # NIL
    BY DEF WorkerShape
  <2>1. /\ pc[w] # "client"
        /\ work[w] = NIL <=> pc[w] \in {"own", "steal", "asleep"}
        /\ pc[w] \in {"submit", "push", "notify"} => sub[w] = Fork[work[w]] /\ sub[w] # NIL
        /\ pc[w] \in {"wait", "blocked"} => want[w] = Fork[work[w]] /\ want[w] # NIL
    BY DEF PoolInv, WorkerShape
  <2>2. CASE w = t
    BY <1>1, <1>3, <1>4, <1>5, <2>1, <2>2
  <2>3. CASE w # t
    BY <1>1, <1>3, <1>4, <1>5, <2>1, <2>3
  <2> QED BY <2>2, <2>3
<1>8. \A c \in Clients : c # t => pc'[c] = pc[c] /\ sub'[c] = sub[c] /\ want'[c] = want[c]
  BY <1>3, <1>4, <1>5
<1>9. ClientShape'
  BY <1>1, <1>4, <1>8 DEF PoolInv, ClientShape
<1>10. NoMissedCompletion'
  BY <1>1, <1>4, <1>5 DEF PoolInv, NoMissedCompletion
<1>11. \A w \in Workers : work[w] # NIL =>
         /\ pc'[w] = "run" <=> pc[w] = "run"
         /\ pc'[w] \in {"notify", "wait", "blocked", "finish"}
              <=> pc[w] \in {"notify", "wait", "blocked", "finish"}
  BY <1>1, <1>3, <1>4
<1>12. \A c \in Clients : \A k \in 1..Len(Roots[c]) : RootPushed(c, k)' <=> RootPushed(c, k)
  BY <1>1, <1>4, <1>8 DEF RootPushed
<1> QED BY <1>1, <1>6, <1>7, <1>9, <1>10, <1>11, <1>12, SameItems

LEMMA WaitKeeps == ASSUME PoolInv, NEW t \in Threads, WaitForWork(t) PROVE PoolInv'
<1>1. /\ pc[t] = "wait"
      /\ \/ /\ want[t] \in done /\ want' = [want EXCEPT ![t] = NIL]
            /\ pc' = [pc EXCEPT ![t] = IF t \in Clients THEN "client" ELSE "finish"]
         \/ want[t] \notin done /\ pc' = [pc EXCEPT ![t] = "blocked"] /\ want' = want
      /\ UNCHANGED <<deque, counter, work, start, turn, sub, idx, next, done, runs>>
  BY DEF WaitForWork, Goto
<1>2. /\ pc \in [Threads -> {"own", "steal", "asleep", "run", "finish", "submit", "push",
                         "notify", "wait", "blocked", "client"}]
      /\ want \in [Threads -> Items \cup {NIL}]
  BY DEF PoolInv, TypeOK
<1>3. (\A w \in Workers : w \in Threads) /\ (\A c \in Clients : c \in Threads)
      /\ \A w \in Workers : w \notin Clients
  BY PoolAssumption DEF Threads
<1>4. /\ \/ pc'[t] = IF t \in Clients THEN "client" ELSE "finish"
         \/ pc'[t] = "blocked" /\ want'[t] = want[t] /\ want[t] \notin done
      /\ \A u \in Threads : u # t => pc'[u] = pc[u] /\ want'[u] = want[u]
  BY <1>1, <1>2
<1>5. TypeOK'
  <2>1. pc' \in [Threads -> {"own", "steal", "asleep", "run", "finish", "submit", "push",
                             "notify", "wait", "blocked", "client"}]
    BY <1>1, <1>2
  <2>2. want' \in [Threads -> Items \cup {NIL}]
    BY <1>1, <1>2
  <2> QED BY <1>1, <2>1, <2>2 DEF PoolInv, TypeOK
<1>6. WorkerShape'
  BY <1>1, <1>3, <1>4 DEF PoolInv, WorkerShape
<1>7. ClientShape'
  BY <1>1, <1>3, <1>4 DEF PoolInv, ClientShape
<1>8. NoMissedCompletion'
  BY <1>1, <1>4 DEF PoolInv, NoMissedCompletion
<1>9. \A w \in Workers :
        /\ pc'[w] = "run" <=> pc[w] = "run"
        /\ pc'[w] \in {"notify", "wait", "blocked", "finish"}
             <=> pc[w] \in {"notify", "wait", "blocked", "finish"}
  BY <1>1, <1>3, <1>4
<1>10. \A c \in Clients : \A k \in 1..Len(Roots[c]) : RootPushed(c, k)' <=> RootPushed(c, k)
  BY <1>1, <1>3, <1>4 DEF RootPushed
<1> QED BY <1>1, <1>5, <1>6, <1>7, <1>8, <1>9, <1>10, SameItems

LEMMA ClientKeeps == ASSUME PoolInv, NEW c \in Clients, ClientStep(c) PROVE PoolInv'
<1>1. PICK m \in Nat : m = Len(Roots[c])
  BY PoolAssumption
<1>2. /\ pc[c] = "client" /\ next[c] <= 2 * m
      /\ \/ /\ next[c] <= m /\ sub' = [sub EXCEPT ![c] = Roots[c][next[c]]]
            /\ pc' = [pc EXCEPT ![c] = "submit"] /\ want' = want
         \/ /\ next[c] > m /\ want' = [want EXCEPT ![c] = Roots[c][next[c] - m]]
            /\ pc' = [pc EXCEPT ![c] = "wait"] /\ sub' = sub
      /\ next' = [next EXCEPT ![c] = next[c] + 1]
      /\ UNCHANGED <<deque, counter, work, start, turn, idx, done, runs>>
  <2>1. next[c] \in Nat
    BY DEF PoolInv, TypeOK
  <2> QED BY <1>1, <2>1 DEF ClientStep, Goto
<1>3. /\ pc \in [Threads -> {"own", "steal", "asleep", "run", "finish", "submit", "push",
                         "notify", "wait", "blocked", "client"}]
      /\ sub \in [Threads -> Items \cup {NIL}] /\ want \in [Threads -> Items \cup {NIL}]
      /\ next \in [Clients -> Nat]
  BY DEF PoolInv, TypeOK
<1>4. (\A w \in Workers : w \in Threads) /\ (\A d \in Clients : d \in Threads)
      /\ \A w \in Workers : w # c
  BY PoolAssumption DEF Threads
<1>5. PICK n \in Nat : n = next[c] /\ n \in 1..(2 * m) /\ next'[c] = n + 1
  BY <1>1, <1>2, <1>3 DEF PoolInv, ClientShape
<1>6. /\ n <= m => n \in 1..m /\ Roots[c][n] \in Items
      /\ n > m => n - m \in 1..m /\ Roots[c][n - m] \in Items
  BY <1>1, <1>5, PoolAssumption
<1>7. TypeOK'
  <2>1. pc' \in [Threads -> {"own", "steal", "asleep", "run", "finish", "submit", "push",
                             "notify", "wait", "blocked", "client"}]
    BY <1>2, <1>3, <1>4
  <2>2. sub' \in [Threads -> Items \cup {NIL}] /\ want' \in [Threads -> Items \cup {NIL}]
    BY <1>2, <1>3, <1>5, <1>6
  <2>3. next' \in [Clients -> Nat]
    BY <1>2, <1>3
  <2> QED BY <1>2, <2>1, <2>2, <2>3 DEF PoolInv, TypeOK
<1>8. /\ \/ n <= m /\ pc'[c] = "submit" /\ sub'[c] = Roots[c][n]
         \/ n > m /\ pc'[c] = "wait" /\ want'[c] = Roots[c][n - m]
      /\ \A u \in Threads : u # c => pc'[u] = pc[u] /\ sub'[u] = sub[u] /\ want'[u] = want[u]
      /\ \A d \in Clients : d # c => next'[d] = next[d]
  BY <1>2, <1>3, <1>4, <1>5
<1>9. WorkerShape'
  BY <1>2, <1>4, <1>8 DEF PoolInv, WorkerShape
<1>10. ClientShape'
  <2> SUFFICES ASSUME NEW d \in Clients
      PROVE  /\ pc'[d] \in {"client", "submit", "push", "notify", "wait", "blocked"}
             /\ next'[d] \in 1..(2 * Len(Roots[d]) + 1)
             /\ pc'[d] \in {"submit", "push", "notify"} =>
                  next'[d] - 1 \in 1..Len(Roots[d]) /\ sub'[d] = Roots[d][next'[d] - 1]
             /\ pc'[d] \in {"wait", "blocked"} =>
                  /\ next'[d] - 1 - Len(Roots[d]) \in 1..Len(Roots[d])
                  /\ want'[d] = Roots[d][next'[d] - 1 - Len(Roots[d])]
    BY DEF ClientShape
  <2>1. CASE d = c
    <3>1. next'[c] - 1 = n /\ next'[c] - 1 - m = n - m /\ next'[c] \in 1..(2 * m + 1)
      BY <1>5
    <3> QED BY <1>1, <1>6, <1>8, <2>1, <3>1
  <2>2. CASE d # c
    BY <1>4, <1>8, <2>2 DEF PoolInv, ClientShape
  <2> QED BY <2>1, <2>2
<1>11. NoMissedCompletion'
  BY <1>2, <1>8 DEF PoolInv, NoMissedCompletion
<1>12. \A w \in Workers : pc'[w] = pc[w]
  BY <1>4, <1>8
<1>13. ASSUME NEW d \in Clients, NEW k \in 1..Len(Roots[d]) PROVE RootPushed(d, k)' <=> RootPushed(d, k)
  <2>1. CASE d = c
    <3>1. k \in 1..m
      BY <1>1, <2>1
    <3> QED BY <1>2, <1>5, <1>8, <2>1, <3>1 DEF RootPushed
  <2>2. CASE d # c
    BY <1>4, <1>8, <2>2 DEF RootPushed
  <2> QED BY <2>1, <2>2
<1> QED BY <1>2, <1>7, <1>9, <1>10, <1>11, <1>12, <1>13, SameItems

(* The item is done and its waiter, if it is blocked already, is woken. *)
LEMMA FinishKeeps == ASSUME PoolInv, NEW w \in Workers, FinishWork(w) PROVE PoolInv'
<1>1. /\ pc[w] = "finish" /\ done' = done \cup {work[w]} /\ work' = [work EXCEPT ![w] = NIL]
      /\ UNCHANGED <<deque, counter, start, turn, sub, idx, want, next, runs>>
  BY DEF FinishWork
<1>2. /\ pc \in [Threads -> {"own", "steal", "asleep", "run", "finish", "submit", "push",
                         "notify", "wait", "blocked", "client"}]
      /\ work \in [Workers -> Items \cup {NIL}] /\ done \subseteq Items
  BY DEF PoolInv, TypeOK
<1>3. (\A v \in Workers : v \in Threads) /\ (\A c \in Clients : c \in Threads) /\ NIL \notin Items
      /\ \A c \in Clients : c # w
  BY PoolAssumption DEF Threads
<1>4. PICK j \in Items : j = work[w]
  <2>1. work[w] # NIL
    BY <1>1 DEF PoolInv, WorkerShape
  <2> QED BY <1>2, <2>1
<1>5. /\ pc' \in [Threads -> {"own", "steal", "asleep", "run", "finish", "submit", "push",
                             "notify", "wait", "blocked", "client"}]
      /\ pc'[w] = "own"
      /\ \A t \in Threads : t # w =>
           \/ pc'[t] = pc[t] /\ ~(pc[t] = "blocked" /\ want[t] = j)
           \/ pc'[t] = "wait" /\ pc[t] = "blocked" /\ want[t] = j
  <2> DEFINE blocked == {t \in Threads : pc[t] = "blocked" /\ want[t] = work[w]}
  <2>1. CASE blocked = {}
    <3>1. pc' = [pc EXCEPT ![w] = "own"]
      BY <2>1 DEF FinishWork, Goto
    <3>2. \A t \in Threads : ~(pc[t] = "blocked" /\ want[t] = j)
      BY <1>4, <2>1
    <3> QED BY <1>2, <1>3, <3>1, <3>2
  <2>2. CASE blocked # {}
    <3>1. PICK u \in Threads : /\ pc[u] = "blocked" /\ want[u] = j
                               /\ pc' = [pc EXCEPT ![w] = "own", ![u] = "wait"]
      BY <1>4, <2>2 DEF FinishWork
    <3>2. u # w
      BY <1>1, <3>1
    <3>3. \A t \in Threads : pc[t] = "blocked" /\ want[t] = j => t = u
      BY <3>1, WaitersApart
    <3> QED BY <1>2, <1>3, <3>1, <3>2, <3>3
  <2> QED BY <2>1, <2>2
<1>6. /\ work'[w] = NIL /\ \A v \in Workers : v # w => work'[v] = work[v] /\ work[v] # j
      /\ ~In(deque, j) /\ j \notin done
  BY <1>1, <1>2, <1>3, <1>4 DEF PoolInv, Exclusive
<1>7. TypeOK'
  <2>1. work' \in [Workers -> Items \cup {NIL}] /\ done' \subseteq Items
    BY <1>1, <1>2, <1>4
  <2> QED BY <1>1, <1>5, <2>1 DEF PoolInv, TypeOK
<1>8. WorkerShape'
  <2> SUFFICES ASSUME NEW v \in Workers
      PROVE  /\ pc'[v] # "client"
             /\ work'[v] = NIL <=> pc'[v] \in {"own", "steal", "asleep"}
             /\ pc'[v] \in {"submit", "push", "notify"} => sub'[v] = Fork[work'[v]] /\ sub'[v] # NIL
             /\ pc'[v] \in {"wait", "blocked"} => want'[v] = Fork[work'[v]] /\ want'[v] # NIL
    BY DEF WorkerShape
  <2>1. /\ pc[v] # "client"
        /\ work[v] = NIL <=> pc[v] \in {"own", "steal", "asleep"}
        /\ pc[v] \in {"submit", "push", "notify"} => sub[v] = Fork[work[v]] /\ sub[v] # NIL
        /\ pc[v] \in {"wait", "blocked"} => want[v] = Fork[work[v]] /\ want[v] # NIL
    BY DEF PoolInv, WorkerShape
  <2>2. CASE v = w
    BY <1>5, <1>6, <2>2
  <2>3. CASE v # w
    BY <1>1, <1>3, <1>5, <1>6, <2>1, <2>3
  <2> QED BY <2>2, <2>3
<1>9. \A c \in Clients : pc'[c] = pc[c] \/ (pc'[c] = "wait" /\ pc[c] = "blocked")
  BY <1>3, <1>5
<1>10. ClientShape'
  BY <1>1, <1>9 DEF PoolInv, ClientShape
<1>11. NoMissedCompletion'
  <2> SUFFICES ASSUME NEW t \in Threads, pc'[t] = "blocked" PROVE want[t] \notin done \cup {j}
    BY <1>1, <1>4 DEF NoMissedCompletion
  <2>1. pc[t] = "blocked" /\ want[t] # j
    BY <1>5
  <2> QED BY <2>1 DEF PoolInv, NoMissedCompletion
<1>12. Exclusive'
  BY <1>1, <1>3, <1>4, <1>6 DEF PoolInv, Exclusive
<1>13. \A i \in Items : Placed(i)' <=> Placed(i)
  BY <1>1, <1>3, <1>4, <1>6 DEF Placed
<1>14. \A v \in Workers : v # w =>
         /\ pc'[v] = "run" <=> pc[v] = "run"
         /\ pc'[v] \in {"notify", "wait", "blocked", "finish"}
              <=> pc[v] \in {"notify", "wait", "blocked", "finish"}
  BY <1>3, <1>5
<1>15. \A i \in Items : Called(i)' <=> Called(i)
  BY <1>1, <1>3, <1>4, <1>6, <1>14 DEF Called
<1>16. \A i \in Items : ForkPushed(i)' <=> ForkPushed(i)
  BY <1>1, <1>3, <1>4, <1>6, <1>14 DEF ForkPushed
<1>17. RunsCount'
  BY <1>1, <1>15 DEF PoolInv, RunsCount
<1>18. RootsPlaced'
  <2>1. \A c \in Clients : \A k \in 1..Len(Roots[c]) :
          Roots[c][k] \in Items /\ (RootPushed(c, k)' <=> RootPushed(c, k))
    BY <1>1, <1>9, PoolAssumption DEF RootPushed
  <2> QED BY <1>13, <2>1 DEF PoolInv, RootsPlaced
<1>19. ForksPlaced'
  BY <1>13, <1>16, PoolAssumption DEF PoolInv, ForksPlaced
<1> QED BY <1>7, <1>8, <1>10, <1>11, <1>12, <1>17, <1>18, <1>19 DEF PoolInv

LEMMA PoolStep == PoolInv /\ [Next]_vars => PoolInv'
<1> SUFFICES ASSUME PoolInv, [Next]_vars PROVE PoolInv'
  OBVIOUS
<1>1. CASE \E w \in Workers : WorkerStep(w)
  BY <1>1, PopOwnKeeps, TryStealKeeps, SleepKeeps, CallKeeps, FinishKeeps DEF WorkerStep
<1>2. CASE \E t \in Threads : Step(t)
  BY <1>2, TakeIndexKeeps, PushKeeps, NotifyKeeps, WaitKeeps DEF Step
<1>3. CASE \E c \in Clients : ClientStep(c)
  BY <1>3, ClientKeeps
<1>4. CASE UNCHANGED vars
  BY <1>4 DEF vars, PoolInv, TypeOK, WorkerShape, ClientShape, Exclusive, RunsCount, RootsPlaced,
              ForksPlaced, NoMissedCompletion, Placed, Called, RootPushed, ForkPushed
<1> QED BY <1>1, <1>2, <1>3, <1>4 DEF Next

(* The invariant in the model's own words. *)
LEMMA PoolInvSuffices == PoolInv => ItemsKept
<1> SUFFICES ASSUME PoolInv PROVE ItemsKept
  OBVIOUS
<1>1. TypeOK /\ NoMissedCompletion
  BY DEF PoolInv
<1>2. deque \in [Workers -> Seq(Items)] /\ work \in [Workers -> Items \cup {NIL}] /\ NIL \notin Items
  BY PoolAssumption DEF PoolInv, TypeOK
<1> DEFINE InDeques(i) == UNION {{<<w, k>> : k \in {j \in 1..Len(deque[w]) : deque[w][j] = i}} : w \in Workers}
           WithWorkers(i) == {<<w, 0>> : w \in {u \in Workers : work[u] = i}}
           Done(i) == IF i \in done THEN {<<N, 0>>} ELSE {}
<1>a. \A i, p : p \in InDeques(i) <=> \E w \in Workers : \E k \in 1..Len(deque[w]) : deque[w][k] = i /\ p = <<w, k>>
  OBVIOUS
<1>b. \A i, p : p \in WithWorkers(i) <=> \E w \in Workers : work[w] = i /\ p = <<w, 0>>
  OBVIOUS
<1>c. \A i, p : p \in Done(i) <=> i \in done /\ p = <<N, 0>>
  OBVIOUS
<1>d. ASSUME NEW i PROVE Places(i) = InDeques(i) \cup WithWorkers(i) \cup Done(i)
  BY DEF Places
<1> HIDE DEF InDeques, WithWorkers, Done
<1>3. ASSUME NEW i \in Items, NEW p \in Places(i)
      PROVE  \/ \E w \in Workers : \E k \in 1..Len(deque[w]) : deque[w][k] = i /\ p = <<w, k>>
             \/ \E w \in Workers : work[w] = i /\ p = <<w, 0>>
             \/ i \in done /\ p = <<N, 0>>
  BY <1>a, <1>b, <1>c, <1>d
<1>4. ASSUME NEW i \in Items, NEW p \in Places(i), NEW q \in Places(i) PROVE p = q
  <2>1. CASE i \in done
    <3>1. ~In(deque, i) /\ \A w \in Workers : work[w] # i
      BY <1>2, <2>1 DEF PoolInv, Exclusive
    <3> QED BY <1>3, <3>1 DEF In
  <2>2. CASE \E w \in Workers : work[w] = i
    <3>1. ~In(deque, i) /\ i \notin done /\ \A v, w \in Workers : work[v] = i /\ work[w] = i => v = w
      BY <1>2, <2>2 DEF PoolInv, Exclusive
    <3> QED BY <1>3, <3>1 DEF In
  <2>3. CASE i \notin done /\ ~\E w \in Workers : work[w] = i
    <3>1. Apart(deque)
      BY DEF PoolInv, Exclusive
    <3>2. PICK v \in Workers : \E k \in 1..Len(deque[v]) : deque[v][k] = i /\ p = <<v, k>>
      BY <1>3, <2>3
    <3>3. PICK w \in Workers : \E k \in 1..Len(deque[w]) : deque[w][k] = i /\ q = <<w, k>>
      BY <1>3, <2>3
    <3> QED BY <3>1, <3>2, <3>3 DEF Apart
  <2> QED BY <2>1, <2>2, <2>3
<1>5. OnePlace
  <2>1. \A i \in Items : runs[i] <= 1
    BY DEF PoolInv, RunsCount
  <2> QED BY <1>4, <2>1 DEF OnePlace
<1>6. ASSUME NEW i, Placed(i) PROVE Places(i) # {}
  <2>1. CASE In(deque, i)
    <3>1. PICK w \in Workers : \E k \in 1..Len(deque[w]) : deque[w][k] = i
      BY <2>1 DEF In
    <3>2. PICK k \in 1..Len(deque[w]) : deque[w][k] = i
      BY <3>1
    <3>3. <<w, k>> \in Places(i)
      BY <3>2, <1>a, <1>d
    <3> QED BY <3>3
  <2>2. CASE \E w \in Workers : work[w] = i
    <3>1. PICK w \in Workers : work[w] = i
      BY <2>2
    <3>2. <<w, 0>> \in Places(i)
      BY <3>1, <1>b, <1>d
    <3> QED BY <3>2
  <2>3. CASE i \in done
    <3>1. <<N, 0>> \in Places(i)
      BY <2>3, <1>c, <1>d
    <3> QED BY <3>1
  <2> QED BY <1>6, <2>1, <2>2, <2>3 DEF Placed
<1>7. ASSUME NEW t \in Threads, pc[t] \in {"wait", "blocked"} PROVE Placed(want[t])
  <2>1. CASE t \in Workers
    <3>1. work[t] \in Items /\ want[t] = Fork[work[t]] /\ want[t] # NIL
      <4>1. work[t] # NIL /\ want[t] = Fork[work[t]] /\ want[t] # NIL
        BY <1>7, <2>1 DEF PoolInv, WorkerShape
      <4> QED BY <1>2, <2>1, <4>1
    <3>2. ForkPushed(work[t])
      BY <1>7, <2>1 DEF ForkPushed
    <3> QED BY <3>1, <3>2 DEF PoolInv, ForksPlaced
  <2>2. CASE t \in Clients
    <3>1. PICK m \in Nat, n \in Nat : m = Len(Roots[t]) /\ n = next[t]
      BY <2>2, PoolAssumption DEF PoolInv, TypeOK
    <3>2. n - 1 - m \in 1..m /\ want[t] = Roots[t][n - 1 - m]
      BY <1>7, <2>2, <3>1 DEF PoolInv, ClientShape
    <3>3. RootPushed(t, n - 1 - m)
      BY <1>7, <3>1, <3>2 DEF RootPushed
    <3> QED BY <2>2, <3>1, <3>2, <3>3 DEF PoolInv, RootsPlaced
  <2> QED BY <2>1, <2>2 DEF Threads
<1>8. \A i \in done : i \in Items /\ runs[i] = 1
  BY DEF PoolInv, RunsCount, Called, TypeOK
<1>9. WaitedItemExists
  BY <1>6, <1>7, <1>8 DEF WaitedItemExists
<1> QED BY <1>1, <1>5, <1>9 DEF ItemsKept

(* Whatever the number of workers, clients and items, and however pops,     *)
(* steals, sleeps, submits and waits interleave: an item that submit-work   *)
(* pushed is at one place and is called once, and a thread in wait-for-work *)
(* waits for an item that exists and is never left blocked once it is done. *)
THEOREM ItemsNeverLost == Spec => []ItemsKept
<1>1. Spec => []PoolInv
  BY PoolInit, PoolStep, PTL DEF Spec
<1> QED BY <1>1, PoolInvSuffices, PTL
=============================================================================
