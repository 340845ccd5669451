------------------------- MODULE IndexPipelineProofs -------------------------
(***************************************************************************)
(* Proofs about IndexPipeline, for every number of files and both windows. *)
(***************************************************************************)
EXTENDS IndexPipeline, WellFoundedInduction, TLAPS

-----------------------------------------------------------------------------
(* Lemmas about sequences.                                                 *)

\* What Append(s, e) is, place by place.
LEMMA AppendElements ==
    ASSUME NEW S, NEW s \in Seq(S), NEW e \in S
    PROVE  /\ Append(s, e) \in Seq(S)
           /\ Len(s) \in Nat /\ DOMAIN s = 1..Len(s)
           /\ Len(Append(s, e)) = Len(s) + 1
           /\ DOMAIN Append(s, e) = 1..(Len(s) + 1)
           /\ \A i \in 1..Len(s) : Append(s, e)[i] = s[i]
           /\ Append(s, e)[Len(s) + 1] = e
  OBVIOUS

\* What Head(s) and Tail(s) are, place by place.
LEMMA TailElements ==
    ASSUME NEW S, NEW s \in Seq(S), s # << >>
    PROVE  /\ Len(s) \in Nat \ {0} /\ DOMAIN s = 1..Len(s)
           /\ Head(s) = s[1] /\ Head(s) \in S
           /\ Tail(s) \in Seq(S)
           /\ Len(Tail(s)) = Len(s) - 1
           /\ DOMAIN Tail(s) = 1..(Len(s) - 1)
           /\ \A i \in 1..(Len(s) - 1) : Tail(s)[i] = s[i + 1]
  OBVIOUS

\* A nonempty set of naturals has a least element.
LEMMA LeastElement ==
    ASSUME NEW S \in SUBSET Nat, S # {}
    PROVE  \E x \in S : \A y \in S : x <= y
<1>1. PICK n \in S : TRUE
  OBVIOUS
<1>2. PICK x \in S : \A y \in S : <<y, x>> \notin OpToRel(<, Nat)
  BY <1>1, NatLessThanWellFounded, WFMin
<1>3. \A y \in S : ~(y < x)
  BY <1>2 DEF OpToRel
<1>4. \A y \in S : x <= y
  BY <1>3
<1> QED
  BY <1>4

-----------------------------------------------------------------------------
(* Types.                                                                  *)

\* The file a retry is at is one of those to try.
LEMMA RetryFileIsTodo ==
    ASSUME TypeOK, todo # {}
    PROVE  RetryFile \in todo /\ RetryFile \in File
<1>1. todo \subseteq File /\ todo \subseteq Nat
  BY PipelineAssumption DEF TypeOK, File
<1>2. \E f \in todo : \A g \in todo : f <= g
  BY <1>1, LeastElement
<1> QED
  BY <1>1, <1>2 DEF RetryFile

\* An insertion keeps the rows and the order typed, and inserts no file twice.
LEMMA InsertedType ==
    ASSUME TypeOK, NEW f \in File, NEW r \in {"marker", "data"}, Inserted(f, r)
    PROVE  /\ row' \in [File -> {"none", "marker", "data"}]
           /\ order' \in Seq(File) /\ IsInjective(order')
<1>1. row' \in [File -> {"none", "marker", "data"}]
  BY DEF TypeOK, Inserted
<1>2. CASE order' = order
  BY <1>1, <1>2 DEF TypeOK
<1>3. CASE order' # order
  <2>1. order' = Append(order, f) /\ ~Contains(order, f)
    BY <1>3 DEF Inserted
  <2>2. order \in Seq(File) /\ IsInjective(order)
    BY DEF TypeOK
  <2>3. order' \in Seq(File)
    BY <2>1, <2>2
  <2>4. \A i, k \in DOMAIN order' : order'[i] = order'[k] => i = k
    BY <2>1, <2>2, AppendElements DEF IsInjective, Contains
  <2> QED
    BY <1>1, <2>3, <2>4 DEF IsInjective
<1> QED
  BY <1>2, <1>3

\* Elements of what a writer may have been sent.
LEMMA SentElements ==
    ASSUME NEW s \in Seq(File \X {"marker", "data"})
    PROVE  /\ Len(s) \in Nat /\ DOMAIN s = 1..Len(s)
           /\ \A k \in DOMAIN s :
                 /\ s[k][1] \in File /\ s[k][2] \in {"marker", "data"}
                 /\ s[k] = <<s[k][1], s[k][2]>>
           /\ \A f : Contains(s, <<f, "data">>) <=>
                 \E k \in DOMAIN s : s[k][1] = f /\ s[k][2] = "data"
<1>1. Len(s) \in Nat /\ DOMAIN s = 1..Len(s)
  OBVIOUS
<1>2. \A k \in DOMAIN s : s[k] \in File \X {"marker", "data"}
  OBVIOUS
<1>3. \A k \in DOMAIN s :
        /\ s[k][1] \in File /\ s[k][2] \in {"marker", "data"}
        /\ s[k] = <<s[k][1], s[k][2]>>
  BY <1>2
<1>4. \A f : Contains(s, <<f, "data">>) <=>
        \E k \in DOMAIN s : s[k][1] = f /\ s[k][2] = "data"
  BY <1>1, <1>3 DEF Contains
<1> QED
  BY <1>1, <1>3, <1>4

\* A head of the window is a file, and its tail a window.
LEMMA WindowTail ==
    ASSUME TypeOK, window # << >>
    PROVE  Head(window) \in File /\ Tail(window) \in Seq(File)
<1>1. window \in Seq(File)
  BY DEF TypeOK
<1> QED
  BY <1>1, TailElements

\* None is no file.
LEMMA NoneIsNoFile == None \notin File
  BY PipelineAssumption DEF None, File

\* A step keeps the types.
LEMMA TypeStep ==
    ASSUME TypeOK, StagesAgree, [Next]_vars
    PROVE  TypeOK'
<1> USE PipelineAssumption
<1>0. CASE UNCHANGED vars
  BY <1>0 DEF TypeOK, vars, main, pool, flush, data, store, retry
<1>1. CASE PassOver
  BY <1>1 DEF TypeOK, PassOver, pool, flush, data, store, retry, File
<1>2. CASE Oversize
  BY <1>2 DEF TypeOK, Oversize, pool, flush, data, store, retry
<1>3. CASE OversizePosted
  <2>1. next \in File
    BY <1>3 DEF TypeOK, OversizePosted, StagesAgree, File
  <2>2. <<next, "marker">> \in File \X {"marker", "data"}
    BY <2>1
  <2>3. sent' \in Seq(File \X {"marker", "data"})
    BY <1>3, <2>2, AppendElements DEF TypeOK, OversizePosted, Post
  <2> QED
    BY <1>3, <2>3 DEF TypeOK, OversizePosted, pool, flush, data, retry
<1>4. CASE OversizeStored
  <2>1. next \in File /\ next' \in 1..(Files + 1)
    BY <1>4 DEF TypeOK, OversizeStored, StagesAgree, File
  <2>2. CASE UNCHANGED data
    BY <1>4, <2>1, <2>2 DEF TypeOK, OversizeStored, pool, flush, data, store, retry
  <2>3. CASE Inserted(next, "marker")
    <3>1. row' \in [File -> {"none", "marker", "data"}] /\ order' \in Seq(File) /\ IsInjective(order')
      BY <2>1, <2>3, InsertedType
    <3> QED
      BY <1>4, <2>1, <3>1 DEF TypeOK, OversizeStored, pool, flush, store, retry
  <2> QED
    BY <1>4, <2>2, <2>3 DEF OversizeStored
<1>5. CASE OversizeFails
  BY <1>5 DEF TypeOK, OversizeFails, Ended, pool, flush, data, store, retry
<1>6. CASE Feed
  BY <1>6 DEF TypeOK, Feed, Request, File, data, store, retry
<1>7. CASE Room
  BY <1>7 DEF TypeOK, Room, pool, flush, data, store, retry
<1>8. CASE Drain
  BY <1>8 DEF TypeOK, Drain, pool, flush, data, store, retry
<1>9. CASE WriterDrained
  BY <1>9 DEF TypeOK, WriterDrained, pool, flush, data, retry
<1>10. CASE WriterDrainFails
  BY <1>10 DEF TypeOK, WriterDrainFails, Ended, pool, flush, data, retry
<1>11. CASE BeginPass
  BY <1>11 DEF TypeOK, BeginPass, Retryable, main, pool, flush, data, store
<1>12. CASE Retry
  BY <1>12 DEF TypeOK, Retry, Request, pool, flush, data, store
<1>13. CASE Retried
  <2>1. RetryFile \in File
    BY <1>13, RetryFileIsTodo DEF Retried, StagesAgree
  <2>2. row' \in [File -> {"none", "marker", "data"}] /\ order' \in Seq(File) /\ IsInjective(order')
    BY <1>13, <2>1, InsertedType DEF TypeOK, Retried, data
  <2>3. tally' \in [File -> {"open", "indexed", "skipped", "errored"}]
    BY <1>13 DEF TypeOK, Retried, Count
  <2> QED
    BY <1>13, <2>1, <2>2, <2>3 DEF TypeOK, Retried, pool, flush, store
<1>14. CASE RetryThrows
  BY <1>14 DEF TypeOK, RetryThrows, Ended, pool, flush, data, store, retry
<1>15. CASE Finish
  BY <1>15 DEF TypeOK, Finish, pool, flush, data, store, retry
<1>16. CASE Close
  BY <1>16 DEF TypeOK, Close, Answer, flush, data, retry
<1>17. CASE End
  BY <1>17 DEF TypeOK, End, Ended, pool, flush, data, store, retry
<1>18. CASE Abort
  BY <1>18 DEF TypeOK, Abort, pool, flush, data, store, retry
<1>19. CASE FlushBegins
  BY <1>19, WindowTail DEF TypeOK, FlushBegins, main, pool, data, store, retry
<1>20. CASE FlushPosts
  BY <1>20 DEF TypeOK, FlushPosts, Post, RowOf, main, pool, data, retry
<1>21. CASE FlushStores
  <2>1. chain \in File /\ RowOf(chain) \in {"marker", "data"}
    BY <1>21 DEF TypeOK, FlushStores, RowOf
  <2>2. row' \in [File -> {"none", "marker", "data"}] /\ order' \in Seq(File) /\ IsInjective(order')
    BY <1>21, <2>1, InsertedType DEF TypeOK, FlushStores, data
  <2>3. tally' \in [File -> {"open", "indexed", "skipped", "errored"}]
    BY <1>21 DEF TypeOK, FlushStores, Count
  <2>4. window' \in Seq(File) /\ chain' \in File \cup {None}
    BY <1>21, WindowTail DEF TypeOK, FlushStores
  <2> QED
    BY <1>21, <2>2, <2>3, <2>4 DEF TypeOK, FlushStores, main, pool, store, retry
<1>22. CASE FlushFails
  BY <1>22 DEF TypeOK, FlushFails, main, pool, data, store, retry
<1>23. CASE WriterApplies
  <2> DEFINE b == Head(sent)
  <2>1. b \in File \X {"marker", "data"} /\ sent' \in Seq(File \X {"marker", "data"})
    BY <1>23, TailElements DEF TypeOK, WriterApplies
  <2>2. b[1] \in File /\ b[2] \in {"marker", "data"}
    BY <2>1
  <2>3. row' \in [File -> {"none", "marker", "data"}] /\ order' \in Seq(File) /\ IsInjective(order')
    BY <1>23, <2>2, InsertedType DEF TypeOK, WriterApplies, data
  <2> QED
    BY <1>23, <2>1, <2>3 DEF TypeOK, WriterApplies, main, pool, flush, retry
<1>24. CASE WriterDies
  BY <1>24 DEF TypeOK, WriterDies, main, pool, flush, data, retry
<1>25. CASE PoolRefuses
  BY <1>25 DEF TypeOK, PoolRefuses, Answer, main, flush, data, store, retry
<1>26. CASE \E f \in File : PoolAnswers(f)
  BY <1>26 DEF TypeOK, PoolAnswers, Answer, main, flush, data, store, retry
<1> QED
  BY <1>0, <1>1, <1>2, <1>3, <1>4, <1>5, <1>6, <1>7, <1>8, <1>9, <1>10, <1>11,
     <1>12, <1>13, <1>14, <1>15, <1>16, <1>17, <1>18, <1>19, <1>20, <1>21, <1>22,
     <1>23, <1>24, <1>25, <1>26 DEF Next, Main, Flush

-----------------------------------------------------------------------------
(* The stages and the window.                                              *)

\* The length of a window, and of one that lost its head or got a file more.
LEMMA WindowLength ==
    ASSUME TypeOK
    PROVE  /\ Len(window) \in Nat
           /\ window # << >> => Len(Tail(window)) = Len(window) - 1
           /\ \A f \in File : Len(Append(window, f)) = Len(window) + 1
           /\ window = << >> => Len(window) = 0
<1>1. window \in Seq(File)
  BY DEF TypeOK
<1> QED
  BY <1>1, TailElements, AppendElements

\* A step keeps what the stages rely on, and the bound of the window.
LEMMA StagesStep ==
    ASSUME PipelineInv, [Next]_vars
    PROVE  StagesAgree' /\ WindowKept'
<1> USE PipelineAssumption, WindowLength, NoneIsNoFile
<1>t. TypeOK /\ StagesAgree /\ WindowKept
  BY DEF PipelineInv
<1> USE DEF StagesAgree, WindowKept, Early
<1>0. CASE UNCHANGED vars
  BY <1>t, <1>0 DEF vars, main, pool, flush, data, store, retry
<1>1. CASE PassOver
  BY <1>t, <1>1 DEF PassOver, pool, flush, data, store, retry
<1>2. CASE Oversize
  BY <1>t, <1>2 DEF Oversize, pool, flush, data, store, retry
<1>3. CASE OversizePosted
  BY <1>t, <1>3 DEF OversizePosted, Post, pool, flush, data, retry
<1>4. CASE OversizeStored
  BY <1>t, <1>4 DEF OversizeStored, pool, flush, store, retry
<1>5. CASE OversizeFails
  BY <1>t, <1>5 DEF OversizeFails, pool, flush, data, store, retry
<1>6. CASE Feed
  <2>1. next \in File
    BY <1>t, <1>6 DEF Feed, TypeOK, File
  <2>2. Len(window') = Len(window) + 1
    BY <1>t, <1>6, <2>1 DEF Feed
  <2> QED
    BY <1>t, <1>6, <2>2 DEF TypeOK, Feed, data, store, retry
<1>7. CASE Room
  BY <1>t, <1>7 DEF Room, pool, flush, data, store, retry
<1>8. CASE Drain
  BY <1>t, <1>8 DEF Drain, pool, flush, data, store, retry
<1>9. CASE WriterDrained
  BY <1>t, <1>9 DEF WriterDrained, pool, flush, data, retry
<1>10. CASE WriterDrainFails
  BY <1>t, <1>10 DEF WriterDrainFails, pool, flush, data, retry
<1>11. CASE BeginPass
  BY <1>t, <1>11 DEF TypeOK, BeginPass, main, pool, flush, data, store
<1>12. CASE Retry
  BY <1>t, <1>12 DEF Retry, flush, data, store
<1>13. CASE Retried
  BY <1>t, <1>13 DEF Retried, pool, flush, store
<1>14. CASE RetryThrows
  BY <1>t, <1>14 DEF RetryThrows, pool, flush, data, store, retry
<1>15. CASE Finish
  BY <1>t, <1>15 DEF Finish, pool, flush, data, store, retry
<1>16. CASE Close
  BY <1>t, <1>16 DEF Close, flush, data, retry
<1>17. CASE End
  BY <1>t, <1>17 DEF End, pool, flush, data, store, retry
<1>18. CASE Abort
  BY <1>t, <1>18 DEF Abort, pool, flush, data, store, retry
<1>19. CASE FlushBegins
  BY <1>t, <1>19, WindowTail DEF FlushBegins, main, pool, data, store, retry
<1>20. CASE FlushPosts
  BY <1>t, <1>20 DEF FlushPosts, Post, main, pool, data, retry
<1>21. CASE FlushStores
  BY <1>t, <1>21 DEF FlushStores, main, pool, store, retry
<1>22. CASE FlushFails
  <2>1. stage = "returned" => aborted
    BY <1>t, <1>22 DEF FlushFails, PipelineInv, Late, AllAccounted
  <2> QED
    BY <1>t, <1>22, <2>1 DEF FlushFails, main, pool, data, store, retry
<1>23. CASE WriterApplies
  BY <1>t, <1>23 DEF WriterApplies, main, pool, flush, retry
<1>24. CASE WriterDies
  BY <1>t, <1>24 DEF WriterDies, main, pool, flush, data, retry
<1>25. CASE PoolRefuses
  BY <1>t, <1>25 DEF PoolRefuses, main, flush, data, store, retry
<1>26. CASE \E f \in File : PoolAnswers(f)
  BY <1>t, <1>26 DEF PoolAnswers, main, flush, data, store, retry
<1> QED
  BY <1>0, <1>1, <1>2, <1>3, <1>4, <1>5, <1>6, <1>7, <1>8, <1>9, <1>10, <1>11,
     <1>12, <1>13, <1>14, <1>15, <1>16, <1>17, <1>18, <1>19, <1>20, <1>21, <1>22,
     <1>23, <1>24, <1>25, <1>26 DEF Next, Main, Flush

-----------------------------------------------------------------------------
(* The order of the files, as a relation between the sequences.            *)

Bundle == File \X {"marker", "data"}

\* f comes before a window w, the file n of the loop and the file c of the
\* chain, and is that file only if it was posted (p).
Before(f, w, c, p, n) ==
    /\ f < n /\ \A j \in DOMAIN w : f < w[j]
    /\ c # None => f < c \/ (p /\ f = c)

\* FilesAreInLine and CommitInOrder for an order o and bundles s, spelled out
\* place by place.
InLine(o, s, w, c, p, n) ==
    /\ \A i, k \in DOMAIN o : i < k => o[i] < o[k]
    /\ \A i \in DOMAIN o, k \in DOMAIN s : s[k][2] = "data" => o[i] < s[k][1]
    /\ \A i, k \in DOMAIN s :
          i < k /\ s[i][2] = "data" /\ s[k][2] = "data" => s[i][1] < s[k][1]
    /\ \A i \in DOMAIN o : Before(o[i], w, c, p, n)
    /\ \A k \in DOMAIN s : s[k][2] = "data" => Before(s[k][1], w, c, p, n)
    /\ c # None => c < n /\ \A j \in DOMAIN w : c < w[j]
    /\ \A j \in DOMAIN w : w[j] < n
    /\ \A j, k \in DOMAIN w : j < k => w[j] < w[k]

LEMMA IntoLine ==
    ASSUME TypeOK, pass = 0, CommitInOrder, FilesAreInLine
    PROVE  InLine(order, sent, window, chain, posted, next)
<1>1. order \in Seq(File) /\ sent \in Seq(File \X {"marker", "data"})
  BY DEF TypeOK
<1>2. \A i \in DOMAIN order : Contains(order, order[i]) /\ order[i] \in File
  BY <1>1 DEF Contains
<1>3. \A k \in DOMAIN sent : sent[k][2] = "data" =>
            Contains(sent, <<sent[k][1], "data">>) /\ sent[k][1] \in File
  BY <1>1, SentElements
<1>4. \A f \in File : Committed(f) => Before(f, window, chain, posted, next)
  BY DEF FilesAreInLine, Before
<1>5. /\ \A i \in DOMAIN order : Before(order[i], window, chain, posted, next)
      /\ \A k \in DOMAIN sent : sent[k][2] = "data" =>
            Before(sent[k][1], window, chain, posted, next)
  BY <1>4, <1>2, <1>3 DEF Committed
<1> QED
  BY <1>5 DEF InLine, FilesAreInLine, CommitInOrder

LEMMA OutOfLine ==
    ASSUME TypeOK', InLine(order', sent', window', chain', posted', next')
    PROVE  CommitInOrder' /\ FilesAreInLine'
<1>1. order' \in Seq(File) /\ sent' \in Seq(Bundle)
  BY DEF TypeOK, Bundle
<1>2. ASSUME NEW f \in File, Committed(f)'
      PROVE  Before(f, window', chain', posted', next')
  <2>1. CASE Contains(order', f)
    BY <1>1, <2>1 DEF Contains, InLine
  <2>2. CASE Contains(sent', <<f, "data">>)
    BY <1>1, <2>2, SentElements DEF InLine, Bundle
  <2> QED
    BY <1>2, <2>1, <2>2 DEF Committed
<1>3. CommitInOrder'
  BY DEF CommitInOrder, InLine
<1>4. FilesAreInLine'
  BY <1>2 DEF FilesAreInLine, InLine, Before
<1> QED
  BY <1>3, <1>4

\* Nothing that leaves the line, and nothing the loop passes, disturbs it.
LEMMA LineShrinks ==
    ASSUME NEW o \in Seq(File), NEW s \in Seq(Bundle), NEW w \in Seq(File),
           NEW c \in File \cup {None}, NEW p, NEW n \in Nat,
           InLine(o, s, w, c, p, n),
           NEW s2 \in {s, << >>}, NEW m \in Nat, m >= n,
           NEW c2, NEW q, c2 = None \/ (c2 = c /\ (p <=> q))
    PROVE  InLine(o, s2, w, c2, q, m)
<1>1. /\ \A i \in DOMAIN o : o[i] \in Int
      /\ \A i \in DOMAIN w : w[i] \in Int
      /\ \A k \in DOMAIN s : s[k][1] \in Int
      /\ c \in Int
  BY SentElements, PipelineAssumption DEF File, None, Bundle
<1>2. DOMAIN s2 \subseteq DOMAIN s /\ \A k \in DOMAIN s2 : s2[k] = s[k]
  OBVIOUS
<1>3. \A f \in Int : Before(f, w, c, p, n) => Before(f, w, c2, q, m)
  BY DEF Before
<1> QED
  BY <1>1, <1>2, <1>3 DEF InLine

\* The marker of a file of no symbols is sent.
LEMMA LineGetsMarker ==
    ASSUME NEW o, NEW s \in Seq(Bundle), NEW w, NEW c, NEW p, NEW n, NEW f \in File,
           InLine(o, s, w, c, p, n)
    PROVE  InLine(o, Append(s, <<f, "marker">>), w, c, p, n)
<1> DEFINE t == Append(s, <<f, "marker">>)
<1>1. <<f, "marker">> \in Bundle
  BY DEF Bundle
<1>2. /\ DOMAIN s = 1..Len(s) /\ Len(s) \in Nat /\ DOMAIN t = 1..(Len(s) + 1)
      /\ \A k \in DOMAIN s : t[k] = s[k]
      /\ t[Len(s) + 1] = <<f, "marker">>
  BY <1>1, AppendElements
<1>3. \A k \in DOMAIN t : t[k][2] = "data" => k \in DOMAIN s /\ t[k] = s[k]
  BY <1>2
<1> HIDE DEF t
<1>4. InLine(o, t, w, c, p, n)
  BY <1>3 DEF InLine
<1> QED
  BY <1>4 DEF t

\* The file of the loop joins the window.
LEMMA LineGetsFile ==
    ASSUME NEW o \in Seq(File), NEW s \in Seq(Bundle), NEW w \in Seq(File),
           NEW c \in File \cup {None}, NEW p, NEW n \in File,
           InLine(o, s, w, c, p, n)
    PROVE  InLine(o, s, Append(w, n), c, p, n + 1)
<1> DEFINE v == Append(w, n)
<1>1. /\ \A i \in DOMAIN o : o[i] \in Int
      /\ \A k \in DOMAIN s : s[k][1] \in Int
      /\ c \in Int /\ n \in Int
  BY SentElements, PipelineAssumption DEF File, None, Bundle
<1>2. \A i \in DOMAIN w : w[i] \in Int
  BY PipelineAssumption DEF File
<1>3. /\ DOMAIN w = 1..Len(w) /\ Len(w) \in Nat /\ DOMAIN v = 1..(Len(w) + 1)
      /\ \A k \in DOMAIN w : v[k] = w[k]
      /\ v[Len(w) + 1] = n
  BY AppendElements
<1> HIDE DEF v
<1>4. \A j \in DOMAIN v : j \in Int /\ (v[j] = n \/ (j \in DOMAIN w /\ v[j] = w[j]))
  BY <1>3
<1>5. \A f \in Int : Before(f, w, c, p, n) => Before(f, v, c, p, n + 1)
  BY <1>1, <1>4 DEF Before
<1>6. c # None => c < n + 1 /\ \A j \in DOMAIN v : c < v[j]
  BY <1>1, <1>4 DEF InLine
<1>7. \A j \in DOMAIN v : v[j] < n + 1
  BY <1>1, <1>2, <1>4 DEF InLine
<1>8. \A j, k \in DOMAIN v : j < k => v[j] < v[k]
  BY <1>2, <1>3 DEF InLine
<1>9. InLine(o, s, v, c, p, n + 1)
  BY <1>1, <1>5, <1>6, <1>7, <1>8 DEF InLine
<1> QED
  BY <1>9 DEF v

\* The chain takes the file at the head of the window.
LEMMA LineMoves ==
    ASSUME NEW o \in Seq(File), NEW s \in Seq(Bundle), NEW w \in Seq(File),
           NEW c, NEW p, NEW n \in Nat, w # << >>,
           InLine(o, s, w, c, p, n)
    PROVE  InLine(o, s, Tail(w), Head(w), FALSE, n)
<1> DEFINE v == Tail(w)
<1>1. /\ DOMAIN w = 1..Len(w) /\ Len(w) \in Nat \ {0} /\ Head(w) = w[1]
      /\ DOMAIN v = 1..(Len(w) - 1)
      /\ \A j \in 1..(Len(w) - 1) : v[j] = w[j + 1]
  BY TailElements
<1> HIDE DEF v
<1>2. \A j \in DOMAIN v : j \in Int /\ j + 1 \in DOMAIN w /\ j + 1 > 1 /\ v[j] = w[j + 1]
  BY <1>1
<1>3. 1 \in DOMAIN w
  BY <1>1
<1>4. \A f : Before(f, w, c, p, n) => Before(f, v, Head(w), FALSE, n)
  BY <1>1, <1>2, <1>3 DEF Before
<1>5. Head(w) < n /\ \A j \in DOMAIN v : Head(w) < v[j]
  BY <1>1, <1>2, <1>3 DEF InLine
<1>6. /\ \A j \in DOMAIN v : v[j] < n
      /\ \A j, k \in DOMAIN v : j < k => v[j] < v[k]
  BY <1>2 DEF InLine
<1>7. InLine(o, s, v, Head(w), FALSE, n)
  BY <1>4, <1>5, <1>6 DEF InLine
<1> QED
  BY <1>7 DEF v

\* The file of the chain is posted.
LEMMA LinePosts ==
    ASSUME NEW o \in Seq(File), NEW s \in Seq(Bundle), NEW w \in Seq(File),
           NEW c \in File, NEW r \in {"marker", "data"}, NEW n \in Nat,
           InLine(o, s, w, c, FALSE, n)
    PROVE  InLine(o, Append(s, <<c, r>>), w, c, TRUE, n)
<1> DEFINE t == Append(s, <<c, r>>)
<1>1. <<c, r>> \in Bundle /\ c # None
  BY NoneIsNoFile DEF Bundle
<1>2. /\ DOMAIN s = 1..Len(s) /\ Len(s) \in Nat /\ DOMAIN t = 1..(Len(s) + 1)
      /\ \A k \in DOMAIN s : t[k] = s[k]
      /\ t[Len(s) + 1] = <<c, r>>
  BY <1>1, AppendElements
<1> HIDE DEF t
<1>3. \A k \in DOMAIN t : \/ k \in DOMAIN s /\ t[k] = s[k]
                          \/ k = Len(s) + 1 /\ t[k][1] = c
  BY <1>2
<1>4. \A f : Before(f, w, c, FALSE, n) => Before(f, w, c, TRUE, n) /\ f < c
  BY <1>1 DEF Before
<1>5. Before(c, w, c, TRUE, n)
  BY <1>1 DEF Before, InLine
<1>6. \A i \in DOMAIN o, k \in DOMAIN t : t[k][2] = "data" => o[i] < t[k][1]
  BY <1>3, <1>4 DEF InLine
<1>7. \A i, k \in DOMAIN t :
        i < k /\ t[i][2] = "data" /\ t[k][2] = "data" => t[i][1] < t[k][1]
  <2> SUFFICES ASSUME NEW i \in DOMAIN t, NEW k \in DOMAIN t, i < k,
                      t[i][2] = "data", t[k][2] = "data"
               PROVE  t[i][1] < t[k][1]
    OBVIOUS
  <2>1. i \in DOMAIN s /\ t[i] = s[i]
    BY <1>2, <1>3
  <2>2. CASE k \in DOMAIN s /\ t[k] = s[k]
    BY <2>1, <2>2 DEF InLine
  <2>3. CASE t[k][1] = c
    BY <2>1, <2>3, <1>4 DEF InLine
  <2> QED
    BY <1>3, <2>2, <2>3
<1>8. /\ \A i \in DOMAIN o : Before(o[i], w, c, TRUE, n)
      /\ \A k \in DOMAIN t : t[k][2] = "data" => Before(t[k][1], w, c, TRUE, n)
  BY <1>3, <1>4, <1>5 DEF InLine
<1>9. InLine(o, t, w, c, TRUE, n)
  BY <1>6, <1>7, <1>8 DEF InLine
<1> QED
  BY <1>9 DEF t

\* The file of the chain is inserted where there is no writer.
LEMMA LineInserts ==
    ASSUME NEW o \in Seq(File), NEW w \in Seq(File), NEW c \in File, NEW p,
           NEW n \in Nat, NEW s, s = << >>, InLine(o, s, w, c, p, n), ~Contains(o, c)
    PROVE  InLine(Append(o, c), s, w, c, TRUE, n)
<1> DEFINE t == Append(o, c)
<1>1. /\ DOMAIN o = 1..Len(o) /\ Len(o) \in Nat /\ DOMAIN t = 1..(Len(o) + 1)
      /\ \A k \in DOMAIN o : t[k] = o[k]
      /\ t[Len(o) + 1] = c
  BY AppendElements
<1> HIDE DEF t
<1>2. \A k \in DOMAIN t : \/ k \in DOMAIN o /\ t[k] = o[k]
                          \/ k = Len(o) + 1 /\ t[k] = c
  BY <1>1
<1>3. c # None /\ \A i \in DOMAIN o : o[i] # c
  BY <1>1, NoneIsNoFile DEF Contains
<1>4. \A i \in DOMAIN o : o[i] < c /\ Before(o[i], w, c, TRUE, n)
  BY <1>3 DEF InLine, Before
<1>5. Before(c, w, c, TRUE, n)
  BY <1>3 DEF Before, InLine
<1>6. \A i, k \in DOMAIN t : i < k => t[i] < t[k]
  <2> SUFFICES ASSUME NEW i \in DOMAIN t, NEW k \in DOMAIN t, i < k
               PROVE  t[i] < t[k]
    OBVIOUS
  <2>1. i \in DOMAIN o /\ t[i] = o[i]
    BY <1>1, <1>2
  <2> QED
    BY <1>2, <1>4, <2>1 DEF InLine
<1>7. \A i \in DOMAIN t : Before(t[i], w, c, TRUE, n)
  BY <1>2, <1>4, <1>5
<1>8. DOMAIN s = {}
  OBVIOUS
<1>9. InLine(t, s, w, c, TRUE, n)
  BY <1>6, <1>7, <1>8 DEF InLine
<1> QED
  BY <1>9 DEF t

\* The writer is rid of its first bundle, and inserts it if it has symbols.
LEMMA LineApplies ==
    ASSUME NEW o \in Seq(File), NEW s \in Seq(Bundle), s # << >>,
           NEW w, NEW c, NEW p, NEW n,
           InLine(o, s, w, c, p, n)
    PROVE  /\ InLine(o, Tail(s), w, c, p, n)
           /\ Head(s)[2] = "data" => InLine(Append(o, Head(s)[1]), Tail(s), w, c, p, n)
<1> DEFINE t == Tail(s)
<1>1. /\ DOMAIN s = 1..Len(s) /\ Len(s) \in Nat \ {0} /\ Head(s) = s[1]
      /\ Head(s) \in Bundle /\ DOMAIN t = 1..(Len(s) - 1)
      /\ \A j \in 1..(Len(s) - 1) : t[j] = s[j + 1]
  BY TailElements
<1> HIDE DEF t
<1>2. \A j \in DOMAIN t : j \in Int /\ j + 1 \in DOMAIN s /\ j + 1 > 1 /\ t[j] = s[j + 1]
  BY <1>1
<1>3. \A i, k \in DOMAIN t :
        i < k /\ t[i][2] = "data" /\ t[k][2] = "data" => t[i][1] < t[k][1]
  BY <1>2 DEF InLine
<1>4. InLine(o, t, w, c, p, n)
  BY <1>2, <1>3 DEF InLine
<1>5. ASSUME Head(s)[2] = "data"
      PROVE  InLine(Append(o, Head(s)[1]), t, w, c, p, n)
  <2> DEFINE f == s[1][1]
             u == Append(o, f)
  <2>1. f \in File /\ 1 \in DOMAIN s /\ s[1][2] = "data"
    BY <1>1, <1>5 DEF Bundle
  <2>2. /\ DOMAIN o = 1..Len(o) /\ Len(o) \in Nat /\ DOMAIN u = 1..(Len(o) + 1)
        /\ \A k \in DOMAIN o : u[k] = o[k]
        /\ u[Len(o) + 1] = f
    BY <2>1, AppendElements
  <2>3. /\ \A i \in DOMAIN o : o[i] < f
        /\ \A k \in DOMAIN t : t[k][2] = "data" => f < t[k][1]
        /\ Before(f, w, c, p, n)
    BY <1>2, <2>1 DEF InLine
  <2> HIDE DEF u, f
  <2>4. \A k \in DOMAIN u : \/ k \in DOMAIN o /\ u[k] = o[k]
                            \/ k = Len(o) + 1 /\ u[k] = f
    BY <2>2
  <2>5. \A i, k \in DOMAIN u : i < k => u[i] < u[k]
    <3> SUFFICES ASSUME NEW i \in DOMAIN u, NEW k \in DOMAIN u, i < k
                 PROVE  u[i] < u[k]
      OBVIOUS
    <3>1. i \in DOMAIN o /\ u[i] = o[i]
      BY <2>2, <2>4
    <3> QED
      BY <2>3, <2>4, <3>1 DEF InLine
  <2>6. \A i \in DOMAIN u, k \in DOMAIN t : t[k][2] = "data" => u[i] < t[k][1]
    BY <1>4, <2>3, <2>4 DEF InLine
  <2>7. \A i \in DOMAIN u : Before(u[i], w, c, p, n)
    BY <2>3, <2>4 DEF InLine
  <2>8. InLine(u, t, w, c, p, n)
    BY <1>4, <2>5, <2>6, <2>7 DEF InLine
  <2> QED
    BY <1>1, <2>8 DEF u, f
<1> QED
  BY <1>4, <1>5 DEF t

\* A step keeps the files in line while the first pass lasts.
LEMMA OrderStep ==
    ASSUME PipelineInv, TypeOK', [Next]_vars, pass' = 0
    PROVE  CommitInOrder' /\ FilesAreInLine'
<1> DEFINE Line == InLine(order', sent', window', chain', posted', next')
<1> SUFFICES Line
  BY OutOfLine
<1>t. /\ TypeOK /\ StagesAgree
      /\ order \in Seq(File) /\ sent \in Seq(Bundle) /\ window \in Seq(File)
      /\ chain \in File \cup {None} /\ posted \in BOOLEAN /\ next \in Nat
      /\ next' \in Nat
  BY PipelineAssumption DEF PipelineInv, TypeOK, Bundle
<1>p. pass = 0
  <2>1. pass' \in {pass, pass + 1} /\ pass \in Nat
    BY <1>t DEF TypeOK, Next, Main, Flush, PassOver, Oversize, OversizePosted,
         OversizeStored, OversizeFails, Feed, Room, Drain, WriterDrained,
         WriterDrainFails, BeginPass, Retry, Retried, RetryThrows, Finish, Close,
         End, Abort, FlushBegins, FlushPosts, FlushStores, FlushFails,
         WriterApplies, WriterDies, PoolRefuses, PoolAnswers, retry, vars
  <2> QED
    BY <2>1
<1>i. InLine(order, sent, window, chain, posted, next)
  BY <1>t, <1>p, IntoLine DEF PipelineInv
<1>s. ASSUME UNCHANGED <<order, window>>, sent' \in {sent, << >>}, next' >= next,
             chain' = None \/ UNCHANGED <<chain, posted>>
      PROVE  Line
  BY <1>t, <1>i, <1>s, LineShrinks
<1>0. CASE UNCHANGED vars
  BY <1>t, <1>0, <1>s DEF vars, main, flush, data, store
<1>1. CASE PassOver
  BY <1>t, <1>1, <1>s DEF PassOver, flush, data, store
<1>2. CASE Oversize
  BY <1>t, <1>2, <1>s DEF Oversize, flush, data, store
<1>3. CASE OversizePosted
  <2>1. next \in File
    BY <1>t, <1>3, PipelineAssumption DEF OversizePosted, StagesAgree, TypeOK, File
  <2> QED
    BY <1>t, <1>i, <1>3, <2>1, LineGetsMarker DEF OversizePosted, Post, flush, data
<1>4. CASE OversizeStored
  BY <1>t, <1>4, <1>s DEF OversizeStored, Inserted, flush, data, store
<1>5. CASE OversizeFails
  BY <1>t, <1>5, <1>s DEF OversizeFails, flush, data, store
<1>6. CASE Feed
  <2>1. next \in File
    BY <1>t, <1>6, PipelineAssumption DEF Feed, TypeOK, File
  <2> QED
    BY <1>t, <1>i, <1>6, <2>1, LineGetsFile DEF Feed, data, store
<1>7. CASE Room
  BY <1>t, <1>7, <1>s DEF Room, flush, data, store
<1>8. CASE Drain
  BY <1>t, <1>8, <1>s DEF Drain, flush, data, store
<1>9. CASE WriterDrained
  BY <1>t, <1>9, <1>s DEF WriterDrained, flush, data
<1>10. CASE WriterDrainFails
  BY <1>t, <1>10, <1>s DEF WriterDrainFails, flush, data
<1>11. CASE BeginPass
  BY <1>p, <1>11 DEF BeginPass
<1>12. CASE Retry
  BY <1>t, <1>12, <1>s DEF Retry, flush, data, store
<1>13. CASE Retried
  BY <1>t, <1>p, <1>13 DEF Retried, StagesAgree
<1>14. CASE RetryThrows
  BY <1>t, <1>14, <1>s DEF RetryThrows, flush, data, store
<1>15. CASE Finish
  BY <1>t, <1>15, <1>s DEF Finish, flush, data, store
<1>16. CASE Close
  BY <1>t, <1>16, <1>s DEF Close, flush, data
<1>17. CASE End
  BY <1>t, <1>17, <1>s DEF End, flush, data, store
<1>18. CASE Abort
  BY <1>t, <1>18, <1>s DEF Abort, flush, data, store
<1>19. CASE FlushBegins
  <2>1. posted' = FALSE
    BY <1>t, <1>19 DEF FlushBegins, StagesAgree
  <2> QED
    BY <1>t, <1>i, <1>19, <2>1, LineMoves DEF FlushBegins, main, data, store
<1>20. CASE FlushPosts
  <2>1. posted = FALSE /\ posted' = TRUE /\ chain \in File
    BY <1>t, <1>20 DEF FlushPosts
  <2>2. RowOf(chain) \in {"marker", "data"}
    BY DEF RowOf
  <2> QED
    BY <1>t, <1>i, <1>20, <2>1, <2>2, LinePosts DEF FlushPosts, Post, main, data
<1>21. CASE FlushStores
  <2>1. chain \in File /\ posted' = FALSE /\ UNCHANGED <<next, sent>>
    BY <1>t, <1>21 DEF FlushStores, main, store
  <2>2. PICK p : InLine(order', sent, window, chain, p, next)
    <3>1. CASE order' = order
      BY <1>i, <3>1
    <3>2. CASE order' # order
      <4>1. writer = "none" /\ order' = Append(order, chain) /\ ~Contains(order, chain)
        BY <1>21, <3>2 DEF FlushStores, Inserted, data
      <4>2. sent = << >>
        BY <1>t, <4>1 DEF StagesAgree
      <4>3. InLine(order', sent, window, chain, TRUE, next)
        BY <1>t, <1>i, <2>1, <4>1, <4>2, LineInserts
      <4> QED
        BY <4>3
    <3> QED
      BY <3>1, <3>2
  <2>3. order' \in Seq(File)
    BY DEF TypeOK
  <2>4. CASE chain' = Head(window) /\ window' = Tail(window) /\ window # << >>
    BY <1>t, <2>1, <2>2, <2>3, <2>4, LineMoves
  <2>5. CASE chain' = None /\ UNCHANGED window
    BY <1>t, <2>1, <2>2, <2>3, <2>5, LineShrinks
  <2> QED
    BY <1>21, <2>4, <2>5 DEF FlushStores
<1>22. CASE FlushFails
  BY <1>t, <1>22, <1>s DEF FlushFails, main, data, store
<1>23. CASE WriterApplies
  <2>1. /\ sent # << >> /\ sent' = Tail(sent)
        /\ UNCHANGED <<window, chain, posted, next>>
    BY <1>23 DEF WriterApplies, main, flush
  <2>2. \/ order' = order
        \/ Head(sent)[2] = "data" /\ order' = Append(order, Head(sent)[1])
    BY <1>23 DEF WriterApplies, Inserted, data
  <2> QED
    BY <1>t, <1>i, <2>1, <2>2, LineApplies
<1>24. CASE WriterDies
  BY <1>t, <1>24, <1>s DEF WriterDies, main, flush, data
<1>25. CASE PoolRefuses
  BY <1>t, <1>25, <1>s DEF PoolRefuses, main, flush, data, store
<1>26. CASE \E f \in File : PoolAnswers(f)
  BY <1>t, <1>26, <1>s DEF PoolAnswers, main, flush, data, store
<1> QED
  BY <1>0, <1>1, <1>2, <1>3, <1>4, <1>5, <1>6, <1>7, <1>8, <1>9, <1>10, <1>11,
     <1>12, <1>13, <1>14, <1>15, <1>16, <1>17, <1>18, <1>19, <1>20, <1>21, <1>22,
     <1>23, <1>24, <1>25, <1>26 DEF Next, Main, Flush

-----------------------------------------------------------------------------
(* The counts.                                                             *)

\* What a sequence contains that got one element more, or lost its head.
LEMMA ContainsAppend ==
    ASSUME NEW S, NEW s \in Seq(S), NEW e \in S
    PROVE  \A x : Contains(Append(s, e), x) <=> Contains(s, x) \/ x = e
<1>1. Append(s, e) \in Seq(S) /\ Len(s) \in Nat /\ Len(Append(s, e)) = Len(s) + 1
  BY AppendElements
<1>2. /\ \A i \in 1..Len(s) : Append(s, e)[i] = s[i]
      /\ Append(s, e)[Len(s) + 1] = e
  BY AppendElements
<1>3. \A i : i \in 1..(Len(s) + 1) <=> i \in 1..Len(s) \/ i = Len(s) + 1
  BY <1>1
<1> QED
  BY <1>1, <1>2, <1>3 DEF Contains

LEMMA ContainsTail ==
    ASSUME NEW S, NEW s \in Seq(S), s # << >>
    PROVE  \A x : Contains(s, x) <=> x = Head(s) \/ Contains(Tail(s), x)
<1>1. Len(s) \in Nat \ {0} /\ Len(Tail(s)) = Len(s) - 1 /\ Head(s) = s[1]
  BY TailElements
<1>2. \A i \in 1..(Len(s) - 1) : Tail(s)[i] = s[i + 1]
  BY TailElements
<1>3. ASSUME NEW x, Contains(s, x), x # Head(s)
      PROVE  Contains(Tail(s), x)
  <2>1. PICK i \in 1..Len(s) : s[i] = x
    BY <1>3 DEF Contains
  <2>2. i - 1 \in 1..(Len(s) - 1) /\ (i - 1) + 1 = i
    BY <1>1, <1>3, <2>1
  <2>3. Tail(s)[i - 1] = x
    BY <1>2, <2>1, <2>2
  <2> QED
    BY <1>1, <2>2, <2>3 DEF Contains
<1>4. ASSUME NEW x, Contains(Tail(s), x)
      PROVE  Contains(s, x)
  <2>1. PICK i \in 1..(Len(s) - 1) : Tail(s)[i] = x
    BY <1>1, <1>4 DEF Contains
  <2>2. i + 1 \in 1..Len(s) /\ s[i + 1] = x
    BY <1>1, <1>2, <2>1
  <2> QED
    BY <2>2 DEF Contains
<1>5. Contains(s, Head(s))
  BY <1>1 DEF Contains
<1> QED
  BY <1>3, <1>4, <1>5

\* A step keeps the counts in agreement while the writer is not drained.
LEMMA CountsStep ==
    ASSUME PipelineInv, TypeOK', [Next]_vars, stage' \in Early
    PROVE  CountsAgree'
<1>s. stage \in Early
  BY DEF Early, Next, Main, Flush, PassOver, Oversize, OversizePosted,
         OversizeStored, OversizeFails, Feed, Room, Drain, WriterDrained,
         WriterDrainFails, BeginPass, Retry, Retried, RetryThrows, Finish, Close,
         End, Abort, FlushBegins, FlushPosts, FlushStores, FlushFails,
         WriterApplies, WriterDies, PoolRefuses, PoolAnswers, main, vars
<1>t. TypeOK /\ StagesAgree /\ CountsAgree /\ FilesAreInLine /\ pass = 0
  BY <1>s DEF PipelineInv, StagesAgree
<1>f. /\ File \subseteq Nat /\ None \notin File /\ next \in Nat
      /\ \A f \in File : f >= next \/ f < next
      /\ window \in Seq(File) /\ sent \in Seq(Bundle) /\ chain \in File \cup {None}
  BY <1>t, PipelineAssumption, NoneIsNoFile DEF File, TypeOK, Bundle
<1>c. /\ chain # None => chain < next
      /\ \A f : Contains(window, f) => f < next
  BY <1>t, <1>f DEF FilesAreInLine, Contains
<1> USE DEF CountsAgree, FileAgrees, BundleAgrees, RowOf, Settled
<1>0. CASE UNCHANGED vars
  BY <1>t, <1>0 DEF vars, main, pool, flush, data, store
<1>1. CASE PassOver
  BY <1>t, <1>f, <1>1 DEF TypeOK, PassOver, pool, flush, data, store
<1>2. CASE Oversize
  BY <1>t, <1>2 DEF Oversize, pool, flush, data, store
<1>3. CASE OversizePosted
  <2>1. next \in File /\ <<next, "marker">> \in Bundle
    BY <1>t, <1>f, <1>3, PipelineAssumption DEF OversizePosted, StagesAgree, TypeOK, File, Bundle
  <2>2. \A x : Contains(sent', x) <=> Contains(sent, x) \/ x = <<next, "marker">>
    BY <1>f, <1>3, <2>1, ContainsAppend DEF OversizePosted, Post
  <2> QED
    BY <1>t, <1>f, <1>3, <2>1, <2>2 DEF OversizePosted, pool, flush, data
<1>4. CASE OversizeStored
  <2>1. next \in File
    BY <1>t, <1>f, <1>4, PipelineAssumption DEF OversizeStored, StagesAgree, TypeOK, File
  <2>2. row' = row \/ row' = [row EXCEPT ![next] = "marker"]
    BY <1>4 DEF OversizeStored, Inserted, data
  <2> QED
    BY <1>t, <1>f, <1>4, <2>1, <2>2 DEF TypeOK, OversizeStored, pool, flush, store
<1>6. CASE Feed
  <2>1. next \in File
    BY <1>t, <1>f, <1>6, PipelineAssumption DEF Feed, TypeOK, File
  <2>2. \A x : Contains(window', x) <=> Contains(window, x) \/ x = next
    BY <1>f, <1>6, <2>1, ContainsAppend DEF Feed
  <2>3. parse' = [parse EXCEPT ![next] = "open"] /\ stage = "feeding" /\ next' = next + 1
        /\ UNCHANGED <<chain, posted, flushError, row, tally, sent, writerError>>
    BY <1>6 DEF Feed, Request, data, store
  <2> QED
    BY <1>t, <1>f, <1>c, <2>1, <2>2, <2>3 DEF TypeOK
<1>7. CASE Room
  BY <1>t, <1>7 DEF Room, pool, flush, data, store
<1>8. CASE Drain
  BY <1>t, <1>8 DEF Drain, pool, flush, data, store
<1>19. CASE FlushBegins
  <2>1. \A x : Contains(window, x) <=> x = Head(window) \/ Contains(window', x)
    BY <1>f, <1>19, ContainsTail DEF FlushBegins
  <2>2. ~posted
    BY <1>t, <1>19 DEF FlushBegins, StagesAgree
  <2> QED
    BY <1>t, <1>f, <1>19, <2>1, <2>2 DEF FlushBegins, main, pool, data, store
<1>20. CASE FlushPosts
  <2>1. chain \in File /\ <<chain, RowOf(chain)>> \in Bundle
    BY <1>f, <1>20 DEF FlushPosts, Bundle
  <2>2. \A x : Contains(sent', x) <=> Contains(sent, x) \/ x = <<chain, RowOf(chain)>>
    BY <1>f, <1>20, <2>1, ContainsAppend DEF FlushPosts, Post
  <2> QED
    BY <1>t, <1>f, <1>c, <1>20, <2>1, <2>2 DEF FlushPosts, Answer, main, pool, data
<1>21. CASE FlushStores
  <2>1. chain \in File
    BY <1>f, <1>21 DEF FlushStores
  <2>2. \A x : Contains(window, x) => x = chain' \/ Contains(window', x)
    BY <1>f, <1>21, ContainsTail DEF FlushStores
  <2> QED
    BY <1>t, <1>f, <1>c, <1>21, <2>1, <2>2 DEF TypeOK, FlushStores, Count, Inserted, Answer, main, pool, data, store
<1>22. CASE FlushFails
  BY <1>t, <1>f, <1>22 DEF FlushFails, main, pool, data, store
<1>23. CASE WriterApplies
  <2> DEFINE b == Head(sent)
  <2>1. b \in Bundle /\ \A x : Contains(sent, x) <=> x = b \/ Contains(sent', x)
    BY <1>f, <1>23, ContainsTail, TailElements DEF WriterApplies
  <2>2. b[1] \in File /\ b[2] \in {"marker", "data"} /\ b = <<b[1], b[2]>>
    BY <2>1 DEF Bundle
  <2>3. (row' = [row EXCEPT ![b[1]] = b[2]] /\ UNCHANGED writerError)
        \/ (writerError' /\ UNCHANGED row)
    BY <1>23 DEF WriterApplies, Inserted, data
  <2>4. UNCHANGED <<stage, next, parse, tally, window, chain, posted, flushError>>
    BY <1>23 DEF WriterApplies, main, pool, flush
  <2>5. b[2] = RowOf(b[1])
    BY <1>t, <2>1, <2>2
  <2> HIDE DEF b
  <2>6. \A f \in File : Contains(sent, <<f, "data">>) =>
           Contains(sent', <<f, "data">>) \/ (f = b[1] /\ b[2] = "data")
    BY <2>1, <2>2
  <2>7. ASSUME NEW f \in File
        PROVE  /\ row'[f] = "data" => parse[f] = "ok"
               /\ row[f] = "data" => row'[f] = "data"
               /\ row[f] = "data" \/ Contains(sent, <<f, "data">>) \/ writerError =>
                     row'[f] = "data" \/ Contains(sent', <<f, "data">>) \/ writerError'
    BY <1>t, <2>2, <2>3, <2>5, <2>6 DEF TypeOK
  <2>8. \A f \in File : FileAgrees(f)'
    BY <1>t, <2>4, <2>7
  <2> QED
    BY <1>t, <2>1, <2>4, <2>8
<1>24. CASE WriterDies
  <2>1. \A x : ~Contains(sent', x)
    BY <1>24 DEF WriterDies, Contains
  <2> QED
    BY <1>t, <1>f, <1>24, <2>1 DEF WriterDies, main, pool, flush, data
<1>25. CASE PoolRefuses
  BY <1>t, <1>f, <1>25 DEF TypeOK, Answer, PoolRefuses, main, flush, data, store
<1>26. CASE \E f \in File : PoolAnswers(f)
  BY <1>t, <1>f, <1>26 DEF TypeOK, Answer, PoolAnswers, main, flush, data, store
<1> QED
  BY <1>s, <1>0, <1>1, <1>2, <1>3, <1>4, <1>6, <1>7, <1>8, <1>19, <1>20, <1>21,
     <1>22, <1>23, <1>24, <1>25, <1>26
     DEF Next, Main, Flush, Early, OversizeFails, WriterDrained, WriterDrainFails,
         BeginPass, Retry, Retried, RetryThrows, Finish, Close, End, Abort, main

\* From the end of the first pass on every file stays accounted for.
Accountable ==
    stage \in {"retrying", "parsing"} \/ (stage \in Late /\ ~aborted /\ ~flushError)

LEMMA AccountedStep ==
    ASSUME PipelineInv, TypeOK', [Next]_vars, Accountable'
    PROVE  AllAccounted'
<1>t. TypeOK /\ StagesAgree /\ (Accountable => AllAccounted) /\ None \notin File
  BY NoneIsNoFile DEF PipelineInv, Accountable
<1> USE DEF Accountable, Late
<1>1. CASE WriterDrained
  <2>1. /\ CountsAgree /\ next > Files /\ chain = None /\ window = << >>
        /\ ~flushError /\ sent = << >> /\ ~writerError
        /\ UNCHANGED <<chain, window, sent, tally, row>>
    BY <1>1 DEF WriterDrained, PipelineInv, StagesAgree, Early, flush, data
  <2>2. \A f \in File : f < next
    BY <1>t, <2>1, PipelineAssumption DEF File, TypeOK
  <2>3. \A x : ~Contains(window, x) /\ ~Contains(sent, x)
    BY <2>1 DEF Contains
  <2>4. ASSUME NEW f \in File
        PROVE  tally[f] # "open" /\ (tally[f] = "indexed" <=> row[f] = "data")
    <3>1. FileAgrees(f) /\ f # chain
      BY <1>t, <2>1 DEF CountsAgree
    <3>2. tally[f] # "open"
      BY <2>1, <2>2, <2>3, <3>1 DEF FileAgrees
    <3>3. tally[f] = "indexed" => row[f] = "data"
      BY <2>1, <2>3, <3>1 DEF FileAgrees
    <3>4. row[f] = "data" => tally[f] = "indexed"
      BY <1>t, <3>1, <3>2 DEF FileAgrees, TypeOK
    <3> QED
      BY <3>2, <3>3, <3>4
  <2> QED
    BY <2>1, <2>4 DEF AllAccounted
<1>2. CASE Retried
  <2>1. RetryFile \in File
    BY <1>t, <1>2, RetryFileIsTodo DEF Retried, StagesAgree
  <2>2. AllAccounted /\ UNCHANGED <<chain, window, sent>>
    BY <1>t, <1>2 DEF Retried, flush, store
  <2>3. \/ UNCHANGED <<row, tally>>
        \/ /\ row' = [row EXCEPT ![RetryFile] = "data"]
           /\ tally' = [tally EXCEPT ![RetryFile] = "indexed"]
    BY <1>2 DEF Retried, Inserted, Count, data
  <2> QED
    BY <1>t, <2>1, <2>2, <2>3 DEF AllAccounted, TypeOK
<1>3. CASE UNCHANGED vars
  BY <1>t, <1>3 DEF vars, main, flush, data, store, AllAccounted
<1>4. CASE BeginPass \/ Retry \/ Finish \/ Close \/ End
  <2>1. UNCHANGED <<aborted, flushError, window, chain, row, tally>> /\ sent' \in {sent, << >>}
    BY <1>4 DEF BeginPass, Retry, Finish, Close, End, main, flush, data, store
  <2>2. Accountable
    BY <1>4, <2>1 DEF BeginPass, Retry, Finish, Close, End, main
  <2> QED
    BY <1>t, <2>1, <2>2 DEF AllAccounted
<1>5. CASE WriterDies \/ PoolRefuses \/ \E f \in File : PoolAnswers(f)
  <2>1. /\ UNCHANGED <<stage, aborted, flushError, window, chain, row, tally>>
        /\ sent' \in {sent, << >>}
    BY <1>5 DEF WriterDies, PoolRefuses, PoolAnswers, main, flush, data, store
  <2> QED
    BY <1>t, <2>1 DEF AllAccounted
<1>6. CASE WriterApplies
  BY <1>t, <1>6 DEF WriterApplies, AllAccounted, main, flush
<1>7. CASE Flush
  <2>1. Accountable
    BY <1>7 DEF Flush, FlushBegins, FlushPosts, FlushStores, FlushFails, main
  <2> QED
    BY <1>t, <1>7, <2>1 DEF AllAccounted, Flush, FlushBegins, FlushPosts, FlushStores, FlushFails
<1>8. CASE Abort \/ Drain
  BY <1>8 DEF Abort, Drain, flush
<1> QED
  BY <1>1, <1>2, <1>3, <1>4, <1>5, <1>6, <1>7, <1>8
     DEF Next, Main, PassOver, Oversize, OversizePosted, OversizeStored,
         OversizeFails, Feed, Room, WriterDrainFails, RetryThrows, Ended

-----------------------------------------------------------------------------
(* The theorems.                                                           *)

LEMMA PipelineInit ==
    Init => PipelineInv
<1> SUFFICES ASSUME Init PROVE PipelineInv
  OBVIOUS
<1> USE DEF Init
<1>1. writer \in {"none", "open"} /\ parse = [f \in File |-> "new"]
  OBVIOUS
<1>2. /\ order = << >> /\ window = << >> /\ sent = << >>
      /\ IsInjective(order) /\ Len(window) = 0
      /\ \A x : ~Contains(order, x) /\ ~Contains(window, x) /\ ~Contains(sent, x)
  BY DEF IsInjective, Contains
<1>3. TypeOK
  <2>1. /\ stage = "feeding" /\ next \in 1..(Files + 1) /\ chain = None
        /\ pass \in 0..2 /\ todo \subseteq File /\ stillFailing \subseteq File
    BY PipelineAssumption
  <2>2. {aborted, destroyed, posted, flushError, writerError} \subseteq BOOLEAN
    BY Zenon
  <2>3. /\ parse \in [File -> Answer \cup {"new", "open"}]
        /\ row \in [File -> {"none", "marker", "data"}]
        /\ tally \in [File -> {"open", "indexed", "skipped", "errored"}]
    BY <1>1
  <2> QED
    BY <1>1, <1>2, <2>1, <2>2, <2>3 DEF TypeOK
<1>4. StagesAgree /\ WindowKept
  BY <1>2, PipelineAssumption DEF StagesAgree, WindowKept, None
<1>5. CommitInOrder /\ FilesAreInLine
  <2>1. DOMAIN order = {} /\ DOMAIN sent = {} /\ DOMAIN window = {}
    OBVIOUS
  <2> QED
    BY <1>2, <2>1 DEF CommitInOrder, FilesAreInLine, Committed
<1>6. CountsAgree
  BY <1>1, <1>2, PipelineAssumption DEF CountsAgree, FileAgrees, File
<1> QED
  BY <1>3, <1>4, <1>5, <1>6 DEF PipelineInv, Early, Late

LEMMA PipelineStep ==
    PipelineInv /\ [Next]_vars => PipelineInv'
<1> SUFFICES ASSUME PipelineInv, [Next]_vars PROVE PipelineInv'
  OBVIOUS
<1>1. TypeOK'
  BY TypeStep DEF PipelineInv
<1>2. StagesAgree' /\ WindowKept'
  BY StagesStep
<1>3. pass' = 0 => CommitInOrder' /\ FilesAreInLine'
  BY <1>1, OrderStep
<1>4. stage' \in Early => CountsAgree'
  BY <1>1, CountsStep
<1>5. Accountable' => AllAccounted'
  BY <1>1, AccountedStep
<1> QED
  BY <1>1, <1>2, <1>3, <1>4, <1>5 DEF PipelineInv, Accountable, Early, Late

\* The stages, the window, the line of files and the counts agree at every
\* step of an index.
THEOREM PipelineInvariant == Spec => []PipelineInv
  BY PipelineInit, PipelineStep, PTL DEF Spec

\* Symbols of the first pass are inserted in file order, whichever parse ends
\* first and whoever stores them.
THEOREM CommitsInFileOrder == Spec => []CommitInOrder
<1>1. PipelineInv => CommitInOrder
  BY DEF PipelineInv, CommitInOrder
<1> QED
  BY <1>1, PipelineInvariant, PTL

\* As long as the store works, files that wait for their turn fit the window.
THEOREM WindowIsBounded == Spec => []WindowKept
<1>1. PipelineInv => WindowKept
  BY DEF PipelineInv
<1> QED
  BY <1>1, PipelineInvariant, PTL

\* An index that returns of its own accord has counted every file as what the
\* database has of it.
THEOREM NoFileIsMiscounted == Spec => []EveryFileAccounted
<1>1. PipelineInv => EveryFileAccounted
  BY DEF PipelineInv, StagesAgree, Late, AllAccounted, EveryFileAccounted
<1> QED
  BY <1>1, PipelineInvariant, PTL
=============================================================================
