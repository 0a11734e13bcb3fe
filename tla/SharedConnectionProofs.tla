----------------------- MODULE SharedConnectionProofs -----------------------
(***************************************************************************)
(* What TLAPS proves of SharedConnection for any number of threads, any    *)
(* array size and any limits: the discipline of the connection's lock      *)
(* under all practices, the session's limit as long as threads do not mix  *)
(* limits, and, unless they share the packet buffer, the texts sent and    *)
(* the status arrays.                                                      *)
(***************************************************************************)
EXTENDS SharedConnection, TLAPS, FiniteSetTheorems

(***************************************************************************)
(* The lock.  LockDiscipline is not inductive: a thread that finds the     *)
(* lock taken in insert_params goes on without it, and whether it may      *)
(* depends on what it did before.  Placed adds where in its loop a thread  *)
(* can be, above all that the lock insert_params takes is never the one    *)
(* my_SQLExecute holds over an array, and that an array's query is sent    *)
(* in its last round, after that lock was released.                        *)
(***************************************************************************)
Sending == {"limit", "lock_limit", "put_limit", "send_limit", "cache",
            "lock_query", "put_query", "send_query", "running"}

\* ... with the lock, between the lock and the answer.
Talking == {"put_limit", "send_limit", "put_query", "send_query", "running"}

Placed(s) ==
  /\ job[s].dae => job[s].params
  /\ frame[s].length < frame[s].row
  /\ pc[s] = "drain" => frame[s].row = 1
  /\ pc[s] = "lock_array" => Union(s) /\ frame[s].row = 1
  /\ pc[s] = "need_data" => Size(s) = 1 /\ job[s].params
  /\ pc[s] \in {"need_data", "write", "written"} \cup Sending => frame[s].row <= Size(s)
  /\ pc[s] \in {"write", "written"} => job[s].params /\ (frame[s].locked => ~Union(s))
  /\ pc[s] \in Sending => (Union(s) => LastRow(s))

IInv == TypeOK /\ LockDiscipline /\ \A s \in Stmt : Placed(s)

(* Lemmas on the values a thread's job and frame can have. *)
LEMMA SizeType ==
  ASSUME NEW j \in Job
  PROVE  /\ Len(j.sets) \in 1 .. MaxSets
         /\ DOMAIN j.sets = 1 .. Len(j.sets)
         /\ \A k \in 1 .. Len(j.sets) : j.sets[k] \in {"use", "ignore", "bad"}
<1>1. PICK n \in 1 .. MaxSets : j.sets \in [1 .. n -> {"use", "ignore", "bad"}]
  BY DEF Job
<1>2. n \in Nat
  BY SharedConnectionAssumption
<1>3. j.sets \in Seq({"use", "ignore", "bad"}) /\ Len(j.sets) = n
  BY <1>1, <1>2
<1> QED BY <1>1, <1>3

LEMMA ContinueFrame ==
  ASSUME NEW f \in Frame, f.row <= MaxSets, NEW rc \in {"success", "error"}
  PROVE  [f EXCEPT !.row = @ + 1, !.rc = rc, !.failed = @ \/ rc # "success"] \in Frame
<1>1. \A b \in BOOLEAN : [f EXCEPT !.row = f.row + 1, !.rc = rc, !.failed = b] \in Frame
  <2> TAKE b \in BOOLEAN
  <2>1. f.row + 1 \in 1 .. MaxSets + 1
    BY SharedConnectionAssumption DEF Frame
  <2> QED BY <2>1 DEF Frame
<1>2. (f.failed \/ rc # "success") \in BOOLEAN
  OBVIOUS
<1> QED BY <1>1, <1>2

LEMMA Ranges ==
  ASSUME IInv, NEW s \in Stmt
  PROVE  /\ frame[s] \in Frame /\ job[s] \in Job
         /\ frame[s].row \in 1 .. MaxSets + 1
         /\ frame[s].length \in 0 .. MaxSets /\ frame[s].length < frame[s].row
         /\ Size(s) \in 1 .. MaxSets
<1>1. frame[s] \in Frame /\ job[s] \in Job
  BY DEF IInv, TypeOK
<1>2. Size(s) \in 1 .. MaxSets
  BY <1>1, SizeType DEF Size
<1> QED BY <1>1, <1>2 DEF Frame, IInv, Placed

LEMMA EmptyText == <<>> \in UNION {[1 .. n -> Cell \cup {None}] : n \in 0 .. MaxSets}
<1>1. <<>> \in [1 .. 0 -> Cell \cup {None}]
  OBVIOUS
<1>2. 0 \in 0 .. MaxSets
  BY SharedConnectionAssumption
<1> QED BY <1>1, <1>2

LEMMA NewFrameType ==
  ASSUME NEW j \in Job
  PROVE  NewFrame(j) \in Frame
<1>1. 1 \in 1 .. MaxSets + 1 /\ 0 \in 0 .. MaxSets
  BY SharedConnectionAssumption
<1>2. (Len(j.sets) > 1) \in BOOLEAN
  OBVIOUS
<1> QED BY <1>1, <1>2, EmptyText DEF NewFrame, Frame

LEMMA NoJobType == NoJob \in Job
<1>1. <<"use">> \in [1 .. 1 -> {"use", "ignore", "bad"}] /\ 1 \in 1 .. MaxSets
  BY SharedConnectionAssumption
<1>2. <<"use">> \in UNION {[1 .. n -> {"use", "ignore", "bad"}] : n \in 1 .. MaxSets}
  BY <1>1
<1> QED BY <1>2, SharedConnectionAssumption DEF NoJob, Job

LEMMA LostFrame ==
  ASSUME IInv, NEW s \in Stmt
  PROVE  LET g == [frame[s] EXCEPT !.lost = ~up] IN
         /\ g \in Frame /\ g.row = frame[s].row
         /\ g.executed = frame[s].executed /\ g.all_failed = frame[s].all_failed
<1>1. \A f \in Frame, b \in BOOLEAN :
        LET g == [f EXCEPT !.lost = b] IN
        /\ g \in Frame /\ g.row = f.row
        /\ g.executed = f.executed /\ g.all_failed = f.all_failed
  BY DEF Frame
<1>2. frame[s] \in Frame /\ (~up) \in BOOLEAN
  BY DEF IInv, TypeOK
<1> QED BY <1>1, <1>2

LEMMA RoundDoneFrame ==
  ASSUME NEW f \in Frame, NEW rc \in {"success", "error"}
  PROVE  [f EXCEPT !.length = 0, !.query = <<>>, !.locked = FALSE,
                   !.all_failed = @ /\ rc # "success"] \in Frame
<1>1. \A b \in BOOLEAN : [f EXCEPT !.length = 0, !.query = <<>>, !.locked = FALSE,
                                   !.all_failed = b] \in Frame
  <2>1. 0 \in 0 .. MaxSets
    BY SharedConnectionAssumption
  <2> QED BY <2>1, EmptyText DEF Frame
<1>2. (f.all_failed /\ rc # "success") \in BOOLEAN
  OBVIOUS
<1> QED BY <1>1, <1>2

LEMMA StatusType ==
  ASSUME IInv, NEW s \in Stmt, frame[s].row <= Size(s),
         NEW st \in {"success", "error", "unused"}, SetStatus(s, st)
  PROVE  status' \in [Stmt -> [1 .. MaxSets -> {"none", "success", "error", "unused"}]]
<1>1. frame[s].row \in 1 .. MaxSets
  BY Ranges, SharedConnectionAssumption
<1> QED BY <1>1 DEF SetStatus, IInv, TypeOK

LEMMA UnlockType ==
  ASSUME IInv, NEW s \in Stmt, NEW condition, Unlock(s, condition)
  PROVE  lock' \in Stmt \cup {None}
BY DEF IInv, TypeOK, Unlock

LEMMA ContinueType ==
  ASSUME IInv, NEW s \in Stmt, NEW f \in Frame, f.row <= MaxSets,
         NEW rc \in {"success", "error"}, Continue(s, f, rc)
  PROVE  /\ frame' \in [Stmt -> Frame] /\ frame'[s].row = f.row + 1
         /\ frame'[s].length = f.length /\ frame'[s].locked = f.locked
         /\ \A t \in Stmt \ {s} : frame'[t] = frame[t] /\ pc'[t] = pc[t]
         /\ pc' = [pc EXCEPT ![s] = "loop"]
<1>1. [f EXCEPT !.row = @ + 1, !.rc = rc, !.failed = @ \/ rc # "success"] \in Frame
  BY ContinueFrame
<1> QED BY <1>1 DEF Continue, Local, GoTo, IInv, TypeOK, Frame

(* A step of one thread that leaves it well placed, and that takes, keeps  *)
(* or gives up the lock as its new place demands, keeps the invariant.     *)
LEMMA OneThread ==
  ASSUME IInv, NEW s \in Stmt, TypeOK', Placed(s)',
         \A t \in Stmt \ {s} : /\ pc'[t] = pc[t] /\ job'[t] = job[t]
                               /\ frame'[t] = frame[t],
         \/ lock' = lock /\ (Holding(s)' <=> Holding(s))
         \/ lock = None /\ lock' = s /\ Holding(s)'
         \/ lock = s /\ lock' = None /\ ~Holding(s)'
  PROVE  IInv'
<1>1. \A t \in Stmt \ {s} : Placed(t)' /\ (Holding(t)' <=> Holding(t))
  BY DEF IInv, Placed, Holding, Union, Size, LastRow
<1>2. \A t \in Stmt : lock' = t <=> Holding(t)'
  BY <1>1, SharedConnectionAssumption DEF IInv, LockDiscipline
<1> QED BY <1>1, <1>2 DEF IInv, LockDiscipline

(* The steps, one by one; those between the text and the answer in one.   *)
LEMMA LockArrayIInv ==
  ASSUME IInv, NEW s \in Stmt, LockArray(s) PROVE IInv'
<1> USE DEF LockArray, GoTo
<1>1. TypeOK'
  BY DEF IInv, TypeOK
<1>2. Placed(s)' /\ Holding(s)'
  BY DEF IInv, TypeOK, Placed, Holding, Union, Size, LastRow, Sending
<1> QED BY <1>1, <1>2, OneThread DEF IInv, TypeOK

LEMMA OverwrittenType == Overwritten \in [1 .. MaxSets -> Cell \cup {None}]
BY DEF Overwritten

LEMMA DrainIInv ==
  ASSUME IInv, NEW s \in Stmt, Drain(s) \/ Drained(s) PROVE IInv'
<1> USE DEF GoTo
<1>1. CASE Drain(s)
  <2>1. TypeOK'
    BY <1>1, OverwrittenType DEF Drain, IInv, TypeOK
  <2>2. Placed(s)' /\ (Holding(s)' <=> Holding(s))
    BY <1>1 DEF Drain, IInv, Placed, Holding, Union, Size, LastRow
  <2> QED BY <1>1, <2>1, <2>2, OneThread DEF Drain, IInv, TypeOK
<1>2. CASE Drained(s)
  <2>1. TypeOK'
    BY <1>2 DEF Drained, IInv, TypeOK
  <2>2. pc'[s] = IF Union(s) THEN "lock_array" ELSE "loop"
    BY <1>2 DEF Drained, IInv, TypeOK
  <2>3. Placed(s)' /\ ~Holding(s) /\ ~Holding(s)'
    BY <1>2, <2>2 DEF Drained, IInv, Placed, Holding, Union, Size, LastRow, Sending
  <2> QED BY <1>2, <2>1, <2>3, OneThread DEF Drained, IInv, TypeOK
<1> QED BY <1>1, <1>2

LEMMA WriteSetIInv ==
  ASSUME IInv, NEW s \in Stmt, WriteSet(s) PROVE IInv'
<1> USE DEF WriteSet, GoTo
<1>1. TypeOK'
  <2>1. frame[s].row \in 1 .. MaxSets /\ frame[s].length + 1 \in 1 .. MaxSets
    BY Ranges, SharedConnectionAssumption DEF IInv, Placed
  <2>2. <<s, frame[s].row>> \in Cell
    BY <2>1, SharedConnectionAssumption DEF Cell, SetCommand
  <2> QED BY <2>1, <2>2 DEF IInv, TypeOK
<1>2. Placed(s)' /\ (Holding(s)' <=> Holding(s))
  BY DEF IInv, TypeOK, Placed, Holding, Union, Size, LastRow, Sending
<1> QED BY <1>1, <1>2, OneThread DEF IInv, TypeOK
LEMMA ExecuteIInv ==
  ASSUME IInv, NEW s \in Stmt, NEW j \in Job, Execute(s, j) PROVE IInv'
<1> USE DEF Execute, GoTo, Local
<1>1. TypeOK'
  BY NewFrameType DEF IInv, TypeOK
<1>2. job'[s] = j /\ frame'[s] = NewFrame(j) /\ Len(j.sets) \in 1 .. MaxSets
  BY SizeType DEF IInv, TypeOK
<1>3. j.dae => j.params
  BY DEF Plain
<1>4. Placed(s)'
  BY <1>2, <1>3, SharedConnectionAssumption DEF IInv, TypeOK, Placed, NewFrame, Union, Size, LastRow, Sending
<1>5. ~Holding(s) /\ ~Holding(s)'
  BY <1>2 DEF IInv, TypeOK, Holding, NewFrame, Union, Size
<1> QED BY <1>1, <1>4, <1>5, OneThread DEF IInv, TypeOK

LEMMA PlainRoundIInv ==
  ASSUME IInv, NEW s \in Stmt, PlainRound(s) PROVE IInv'
<1> USE DEF PlainRound, GoTo, Local
<1>1. TypeOK'
  <2>1. frame[s].row + 1 \in 1 .. MaxSets + 1
    BY Ranges, SharedConnectionAssumption
  <2>2. [frame[s] EXCEPT !.row = @ + 1] \in Frame
    BY <2>1, Ranges DEF Frame
  <2>3. <<<<s, WholeQuery>>>> \in [1 .. 1 -> Cell \cup {None}]
    BY SharedConnectionAssumption DEF Cell, WholeQuery, SetCommand
  <2>4. <<<<s, WholeQuery>>>> \in UNION {[1 .. n -> Cell \cup {None}] : n \in 0 .. MaxSets}
    BY <2>3, SharedConnectionAssumption
  <2>5. [frame[s] EXCEPT !.query = <<<<s, WholeQuery>>>>] \in Frame
    BY <2>4, Ranges DEF Frame
  <2> QED BY <2>2, <2>5 DEF IInv, TypeOK
<1>2. Placed(s)' /\ (Holding(s)' <=> Holding(s))
  <2>1. /\ frame'[s].row \in {frame[s].row, frame[s].row + 1}
        /\ frame'[s].row = frame[s].row + 1 => pc'[s] = "loop"
        /\ frame'[s].length = frame[s].length
        /\ pc'[s] \in {"loop", "limit"} /\ pc[s] = "loop"
        /\ \A t \in Stmt \ {s} : frame'[t] = frame[t]
    <3>1. /\ frame \in [Stmt -> Frame] /\ pc[s] = "loop"
      BY DEF IInv, TypeOK
    <3>2. CASE /\ frame' = [frame EXCEPT ![s] =
                              [frame[s] EXCEPT !.query = <<<<s, WholeQuery>>>>]]
               /\ pc' = [pc EXCEPT ![s] = "limit"]
      <4>1. pc'[s] = "limit"
        BY <3>2 DEF IInv, TypeOK
      <4> QED BY <3>1, <3>2, <4>1, Ranges DEF Frame
    <3>3. CASE /\ frame' = [frame EXCEPT ![s] = [frame[s] EXCEPT !.row = @ + 1]]
               /\ pc' = pc
      BY <3>1, <3>3, Ranges DEF Frame
    <3> QED BY <3>2, <3>3
  <2>2. ~Holding(s) /\ ~Holding(s)'
    BY <2>1 DEF Holding, Union
  <2>3. Placed(s)'
    BY <2>1, Ranges, SharedConnectionAssumption DEF IInv, Placed, Union, Size, LastRow, Sending
  <2> QED BY <2>2, <2>3
<1> QED BY <1>1, <1>2, OneThread DEF IInv, TypeOK

LEMMA IgnoreSetIInv ==
  ASSUME IInv, NEW s \in Stmt, IgnoreSet(s) PROVE IInv'
<1> USE DEF IgnoreSet, AtSet, Local
<1>1. frame[s].row \in 1 .. MaxSets /\ frame[s].row <= Size(s)
  BY Ranges, SharedConnectionAssumption
<1>2. TypeOK'
  <2>1. frame[s].row + 1 \in 1 .. MaxSets + 1
    BY <1>1, SharedConnectionAssumption
  <2>2. [frame[s] EXCEPT !.row = @ + 1] \in Frame
    BY <2>1, Ranges DEF Frame
  <2> QED BY <1>1, <2>2, StatusType, UnlockType DEF IInv, TypeOK
<1>3. /\ frame'[s].row = frame[s].row + 1 /\ frame'[s].length = frame[s].length
      /\ \A t \in Stmt \ {s} : frame'[t] = frame[t]
  BY Ranges DEF IInv, TypeOK, Frame
<1>4. Placed(s)'
  BY <1>1, <1>3, Ranges DEF IInv, Placed, Union, Size, LastRow, Sending
<1>5. CASE Union(s) /\ LastRow(s)
  <2>1. Holding(s) /\ ~Holding(s)'
    BY <1>1, <1>3, <1>5 DEF Holding, Union, Size, LastRow
  <2> QED BY <1>2, <1>3, <1>4, <1>5, <2>1, OneThread DEF IInv, LockDiscipline, Unlock
<1>6. CASE ~(Union(s) /\ LastRow(s))
  <2>1. Holding(s)' <=> Holding(s)
    BY <1>1, <1>3, <1>6, Ranges DEF Holding, Union, Size, LastRow
  <2> QED BY <1>2, <1>3, <1>4, <1>6, <2>1, OneThread DEF Unlock
<1> QED BY <1>5, <1>6

LEMMA RefuseDataAtExecIInv ==
  ASSUME IInv, NEW s \in Stmt, RefuseDataAtExec(s) PROVE IInv'
<1> USE DEF RefuseDataAtExec, AtSet, Local, GoTo
<1>1. frame[s].row <= Size(s) /\ job[s].params
  BY DEF IInv, Placed
<1>2. TypeOK'
  <2>1. [frame[s] EXCEPT !.rc = "error", !.failed = TRUE] \in Frame
    BY Ranges DEF Frame
  <2>2. status' \in [Stmt -> [1 .. MaxSets -> {"none", "success", "error", "unused"}]]
    BY DEF IInv, TypeOK
  <2> QED BY <2>1, <2>2, UnlockType DEF IInv, TypeOK
<1>3. Placed(s)'
  BY Ranges DEF IInv, TypeOK, Frame, Placed, Union, Size, Sending
<1>4. (Holding(s) <=> job[s].select) /\ ~Holding(s)'
  BY <1>1 DEF IInv, TypeOK, Holding, Union, Size
<1> QED BY <1>2, <1>3, <1>4, OneThread DEF IInv, TypeOK, Unlock, LockDiscipline

LEMMA NeedDataIInv ==
  ASSUME IInv, NEW s \in Stmt, NeedData(s) PROVE IInv'
<1> USE DEF NeedData, AtSet, GoTo
<1>1. TypeOK'
  BY DEF IInv, TypeOK
<1>2. Placed(s)' /\ (Holding(s)' <=> Holding(s))
  BY Ranges DEF IInv, TypeOK, Placed, Holding, Union, Size, LastRow, Sending
<1> QED BY <1>1, <1>2, OneThread DEF IInv, TypeOK

LEMMA TryLockIInv ==
  ASSUME IInv, NEW s \in Stmt, TryLock(s) PROVE IInv'
<1> USE DEF TryLock, AtSet, GoTo, Local
<1>1. TypeOK'
  <2>1. [frame[s] EXCEPT !.locked = lock = None] \in Frame
    BY Ranges DEF Frame
  <2> QED BY <2>1 DEF IInv, TypeOK
<1>2. /\ frame'[s].row = frame[s].row /\ frame'[s].length = frame[s].length
      /\ frame'[s].locked = (lock = None)
      /\ \A t \in Stmt \ {s} : frame'[t] = frame[t]
  BY Ranges DEF IInv, TypeOK, Frame
<1>3. job[s].params /\ frame[s].row <= Size(s)
  BY DEF IInv, Placed
<1>4. Holding(s) <=> Union(s)
  BY <1>3 DEF Holding, IInv, Placed, Union
<1>5. lock = s <=> Holding(s)
  BY DEF IInv, LockDiscipline
<1>6. Placed(s)'
  <2>1. pc'[s] = "write"
    BY DEF IInv, TypeOK
  <2>2. frame'[s].locked => ~Union(s)
    BY <1>2, <1>4, <1>5, SharedConnectionAssumption
  <2> QED BY <1>2, <1>3, <2>1, <2>2, Ranges DEF IInv, Placed, Union, Size, LastRow, Sending
<1>7. Holding(s)' <=> Union(s) \/ lock = None
  BY <1>2, <1>3 DEF IInv, TypeOK, Holding, Union, Size
<1> QED BY <1>1, <1>2, <1>4, <1>5, <1>6, <1>7, OneThread DEF IInv, TypeOK
LEMMA FailSetIInv ==
  ASSUME IInv, NEW s \in Stmt, FailSet(s) PROVE IInv'
<1> USE DEF FailSet, AtSet
<1>1. /\ frame[s].row \in 1 .. MaxSets /\ frame[s].row <= Size(s)
      /\ job[s].params /\ (frame[s].locked => ~Union(s))
      /\ frame[s].length < frame[s].row
  BY Ranges, SharedConnectionAssumption DEF IInv, Placed
<1>2. /\ frame' \in [Stmt -> Frame] /\ frame'[s].row = frame[s].row + 1
      /\ frame'[s].length = frame[s].length
      /\ \A t \in Stmt \ {s} : frame'[t] = frame[t] /\ pc'[t] = pc[t]
      /\ pc' = [pc EXCEPT ![s] = "loop"]
  BY <1>1, Ranges, ContinueType
<1>3. TypeOK'
  BY <1>1, <1>2, StatusType, UnlockType DEF IInv, TypeOK
<1>4. Placed(s)'
  BY <1>1, <1>2, Ranges DEF IInv, TypeOK, Placed, Union, Size, LastRow, Sending
<1>5. /\ Holding(s) <=> (frame[s].locked \/ Union(s))
      /\ Holding(s)' <=> (Union(s) /\ ~LastRow(s))
  BY <1>1, <1>2, Ranges DEF IInv, TypeOK, Holding, Union, Size, LastRow
<1>6. lock = s <=> Holding(s)
  BY DEF IInv, LockDiscipline
<1> QED BY <1>1, <1>2, <1>3, <1>4, <1>5, <1>6, OneThread DEF Unlock

LEMMA JoinSetIInv ==
  ASSUME IInv, NEW s \in Stmt, JoinSet(s) PROVE IInv'
<1> USE DEF JoinSet, AtSet
<1> DEFINE f == [frame[s] EXCEPT !.length = @ + 1]
<1>1. /\ frame[s].row \in 1 .. MaxSets /\ frame[s].row <= Size(s)
      /\ job[s].params /\ (frame[s].locked => ~Union(s))
      /\ frame[s].length < frame[s].row
  BY Ranges, SharedConnectionAssumption DEF IInv, Placed
<1>2. Union(s) /\ ~LastRow(s) /\ ~frame[s].locked
  BY <1>1, Ranges DEF Union, LastRow
<1>3. frame[s].length + 1 \in 0 .. MaxSets
  BY <1>1, Ranges, SharedConnectionAssumption
<1>4. /\ f \in Frame /\ f.row = frame[s].row /\ f.length = frame[s].length + 1
      /\ f.locked = frame[s].locked
  BY <1>3, Ranges DEF Frame
<1>5. Continue(s, f, "success")
  OBVIOUS
<1> HIDE DEF f
<1>6. /\ frame' \in [Stmt -> Frame] /\ frame'[s].row = frame[s].row + 1
      /\ frame'[s].length = frame[s].length + 1
      /\ \A t \in Stmt \ {s} : frame'[t] = frame[t] /\ pc'[t] = pc[t]
      /\ pc' = [pc EXCEPT ![s] = "loop"]
  BY <1>1, <1>4, <1>5, ContinueType
<1>7. TypeOK'
  BY <1>1, <1>6, StatusType, UnlockType DEF IInv, TypeOK
<1>8. Placed(s)'
  BY <1>1, <1>6, Ranges DEF IInv, TypeOK, Placed, Union, Size, LastRow, Sending
<1>9. Holding(s) /\ Holding(s)'
  BY <1>1, <1>2, <1>6, Ranges DEF IInv, TypeOK, Holding, Union, Size, LastRow
<1> QED BY <1>2, <1>6, <1>7, <1>8, <1>9, OneThread DEF Unlock

LEMMA CopyTextIInv ==
  ASSUME IInv, NEW s \in Stmt, CopyText(s) PROVE IInv'
<1> USE DEF CopyText, AtSet, Local, GoTo
<1>1. /\ frame[s].row \in 1 .. MaxSets /\ frame[s].row <= Size(s)
      /\ job[s].params /\ frame[s].length < frame[s].row
  BY Ranges, SharedConnectionAssumption DEF IInv, Placed
<1>2. frame[s].length + 1 \in 0 .. MaxSets
  BY <1>1, Ranges, SharedConnectionAssumption
<1>3. [k \in 1 .. frame[s].length + 1 |-> buff[k]]
        \in UNION {[1 .. n -> Cell \cup {None}] : n \in 0 .. MaxSets}
  <2>1. \A k \in 1 .. frame[s].length + 1 : buff[k] \in Cell \cup {None}
    BY <1>2, SharedConnectionAssumption DEF IInv, TypeOK
  <2> QED BY <1>2, <2>1
<1>4. [frame[s] EXCEPT !.query = [k \in 1 .. frame[s].length + 1 |-> buff[k]]] \in Frame
  BY <1>3, Ranges DEF Frame
<1>5. TypeOK'
  BY <1>1, <1>4, StatusType, UnlockType DEF IInv, TypeOK
<1>6. /\ frame'[s].row = frame[s].row /\ frame'[s].length = frame[s].length
      /\ \A t \in Stmt \ {s} : frame'[t] = frame[t]
  BY Ranges DEF IInv, TypeOK, Frame
<1>7. Placed(s)'
  BY <1>1, <1>6, Ranges DEF IInv, TypeOK, Placed, Union, Size, LastRow, Sending
<1>8. (Holding(s) <=> (frame[s].locked \/ Union(s))) /\ ~Holding(s)'
  BY <1>1 DEF IInv, TypeOK, Holding
<1>9. lock = s <=> Holding(s)
  BY DEF IInv, LockDiscipline
<1> QED BY <1>5, <1>6, <1>7, <1>8, <1>9, OneThread DEF IInv, TypeOK, Unlock

(* From the complete text to the answer a thread moves from label to       *)
(* label; the lock is held from a put to the answer.                       *)
LEMMA SendingMove ==
  ASSUME IInv, NEW s \in Stmt, pc[s] \in Sending, NEW to \in Sending, GoTo(s, to),
         TypeOK', job' = job, frame' = frame,
         \/ lock' = lock /\ (pc[s] \in Sending \ {"limit", "lock_limit", "cache", "lock_query"}
                             <=> to \in Sending \ {"limit", "lock_limit", "cache", "lock_query"})
         \/ lock = None /\ lock' = s /\ to \in {"put_limit", "put_query"}
         \/ lock' = None /\ pc[s] = "send_limit" /\ to = "cache"
  PROVE  IInv'
<1>1. pc'[s] = to /\ \A t \in Stmt \ {s} : pc'[t] = pc[t]
  BY DEF GoTo, IInv, TypeOK
<1>2. Placed(s)'
  BY <1>1 DEF IInv, Placed, Sending, Union, Size, LastRow
<1>3. /\ Holding(s) <=> pc[s] \in Sending \ {"limit", "lock_limit", "cache", "lock_query"}
      /\ Holding(s)' <=> to \in Sending \ {"limit", "lock_limit", "cache", "lock_query"}
  BY <1>1 DEF Holding, Sending
<1>4. lock = s <=> Holding(s)
  BY DEF IInv, LockDiscipline
<1> QED BY <1>1, <1>2, <1>3, <1>4, OneThread DEF Sending

LEMMA RoundDoneIInv ==
  ASSUME IInv, NEW s \in Stmt, pc[s] \in Sending, NEW rc \in {"success", "error"},
         NEW f \in Frame, f.row = frame[s].row, RoundDone(s, f, rc),
         \/ pc[s] = "limit" /\ lock' = lock
         \/ pc[s] \in Talking /\ lock' = None,
         buff' \in [1 .. MaxSets -> Cell \cup {None}],
         more_results' \in BOOLEAN, kill' \in BOOLEAN,
         UNCHANGED <<sql_select_limit, limit, up, job>>
  PROVE  IInv'
<1> DEFINE g == [f EXCEPT !.length = 0, !.query = <<>>, !.locked = FALSE,
                          !.all_failed = @ /\ rc # "success"]
<1>1. frame[s].row \in 1 .. MaxSets /\ frame[s].row <= Size(s)
      /\ (Union(s) => LastRow(s))
  BY Ranges, SharedConnectionAssumption DEF IInv, Placed
<1>2. g \in Frame
  BY RoundDoneFrame
<1>3. g.row = frame[s].row /\ g.length = 0 /\ g.locked = FALSE
  BY DEF Frame
<1>4. Continue(s, g, rc) /\ SetStatus(s, rc)
  BY DEF RoundDone
<1> HIDE DEF g
<1>5. /\ frame' \in [Stmt -> Frame] /\ frame'[s].row = frame[s].row + 1
      /\ frame'[s].length = 0
      /\ \A t \in Stmt \ {s} : frame'[t] = frame[t] /\ pc'[t] = pc[t]
      /\ pc' = [pc EXCEPT ![s] = "loop"]
  BY <1>1, <1>2, <1>3, <1>4, ContinueType
<1>6. TypeOK'
  BY <1>1, <1>4, <1>5, StatusType DEF IInv, TypeOK
<1>7. Placed(s)'
  BY <1>1, <1>5 DEF IInv, TypeOK, Placed, Union, Size, LastRow, Sending
<1>8. ~Holding(s)'
  BY <1>1, <1>5, Ranges DEF IInv, TypeOK, Holding, Union, Size, LastRow
<1>9. (lock = s <=> Holding(s)) /\ (pc[s] = "limit" => ~Holding(s))
      /\ (pc[s] \in Talking => Holding(s))
  BY DEF IInv, LockDiscipline, Holding, Talking
<1> QED BY <1>5, <1>6, <1>7, <1>8, <1>9, OneThread
LEMMA FailedIInv ==
  ASSUME IInv, NEW s \in Stmt, pc[s] \in Talking, Failed(s), kill' \in BOOLEAN
  PROVE  IInv'
<1>1. /\ [frame[s] EXCEPT !.lost = ~up] \in Frame
      /\ [frame[s] EXCEPT !.lost = ~up].row = frame[s].row
  BY LostFrame
<1>2. buff' \in [1 .. MaxSets -> Cell \cup {None}] /\ more_results' \in BOOLEAN
  BY OverwrittenType DEF Failed, IInv, TypeOK
<1> QED BY <1>1, <1>2, RoundDoneIInv DEF Failed, Talking, Sending

LEMMA OtherStepsIInv ==
  ASSUME IInv, NEW s \in Stmt,
         \/ CheckLimit(s) \/ LockForLimit(s) \/ LockForQuery(s) \/ PutLimit(s)
         \/ PutQuery(s) \/ SetLimit(s) \/ CacheLimit(s) \/ SendQuery(s)
         \/ QueryDone(s) \/ CommandFails(s)
  PROVE  IInv'
<1>1. CASE CheckLimit(s)
  <2>1. CASE frame[s].lost
    <3>1. /\ buff' \in [1 .. MaxSets -> Cell \cup {None}]
          /\ more_results' \in BOOLEAN /\ kill' \in BOOLEAN
      BY <1>1 DEF CheckLimit, IInv, TypeOK
    <3>2. RoundDone(s, frame[s], "error") /\ pc[s] = "limit" /\ lock' = lock
          /\ UNCHANGED <<sql_select_limit, limit, up, job>>
      BY <1>1, <2>1 DEF CheckLimit
    <3> QED BY <3>1, <3>2, Ranges, RoundDoneIInv DEF Sending
  <2>2. CASE ~frame[s].lost
    <3>1. TypeOK'
      BY <1>1, <2>2 DEF CheckLimit, GoTo, IInv, TypeOK
    <3> QED BY <1>1, <2>2, <3>1, SendingMove DEF CheckLimit, Sending
  <2> QED BY <2>1, <2>2
<1>2. CASE LockForLimit(s) \/ LockForQuery(s)
  <2>1. TypeOK'
    BY <1>2 DEF LockForLimit, LockForQuery, Acquire, GoTo, IInv, TypeOK
  <2>2. CASE LockForLimit(s)
    BY <2>1, <2>2, SendingMove DEF LockForLimit, Acquire, Sending
  <2>3. CASE LockForQuery(s)
    BY <2>1, <2>3, SendingMove DEF LockForQuery, Acquire, Sending
  <2> QED BY <1>2, <2>2, <2>3
<1>3. CASE PutLimit(s)
  <2>1. 1 \in 1 .. MaxSets /\ <<s, SetCommand>> \in Cell
    BY SharedConnectionAssumption DEF Cell, SetCommand
  <2>2. TypeOK'
    BY <1>3, <2>1 DEF PutLimit, GoTo, IInv, TypeOK
  <2> QED BY <1>3, <2>2, SendingMove DEF PutLimit, Sending
<1>4. CASE PutQuery(s)
  <2>1. PICK n \in 0 .. MaxSets : frame[s].query \in [1 .. n -> Cell \cup {None}]
    BY Ranges DEF Frame
  <2>2. Len(frame[s].query) = n
    BY <2>1, SharedConnectionAssumption
  <2>3. buff' \in [1 .. MaxSets -> Cell \cup {None}]
    BY <1>4, <2>1, <2>2 DEF PutQuery, IInv, TypeOK
  <2>4. TypeOK'
    BY <1>4, <2>3 DEF PutQuery, GoTo, IInv, TypeOK
  <2> QED BY <1>4, <2>4, SendingMove DEF PutQuery, Sending
<1>5. CASE SetLimit(s)
  <2>1. job[s].limit \in Limits
    BY Ranges DEF Job
  <2>2. TypeOK'
    BY <1>5, <2>1, OverwrittenType DEF SetLimit, GoTo, IInv, TypeOK
  <2> QED BY <1>5, <2>2, SendingMove DEF SetLimit, Sending
<1>6. CASE CacheLimit(s)
  <2>1. job[s].limit \in Limits
    BY Ranges DEF Job
  <2>2. TypeOK'
    BY <1>6, <2>1 DEF CacheLimit, GoTo, IInv, TypeOK
  <2> QED BY <1>6, <2>2, SendingMove DEF CacheLimit, Sending
<1>7. CASE SendQuery(s)
  <2>1. TypeOK'
    BY <1>7 DEF SendQuery, GoTo, IInv, TypeOK
  <2> QED BY <1>7, <2>1, SendingMove DEF SendQuery, Sending
<1>8. CASE QueryDone(s)
  <2> DEFINE f == [frame[s] EXCEPT !.executed = @ \cup Executed(s)]
  <2>0. frame[s].row \in 1 .. MaxSets
    BY <1>8, Ranges, SharedConnectionAssumption DEF QueryDone, IInv, Placed, Sending
  <2>1. Executed(s) \subseteq 1 .. MaxSets
    BY <2>0 DEF Executed
  <2>4. f \in Frame
    BY <2>1, Ranges DEF Frame
  <2>2. f.row = frame[s].row
    BY Ranges DEF Frame
  <2>3. RoundDone(s, f, "success")
    BY <1>8 DEF QueryDone
  <2>5. /\ buff' \in [1 .. MaxSets -> Cell \cup {None}]
        /\ more_results' \in BOOLEAN /\ kill' \in BOOLEAN
    BY <1>8, OverwrittenType DEF QueryDone, IInv, TypeOK
  <2> HIDE DEF f
  <2> QED BY <1>8, <2>4, <2>2, <2>3, <2>5, RoundDoneIInv DEF QueryDone, Talking, Sending
<1>9. CASE CommandFails(s)
  BY <1>9, FailedIInv DEF CommandFails, Talking, IInv, TypeOK
<1> QED BY <1>1, <1>2, <1>3, <1>4, <1>5, <1>6, <1>7, <1>8, <1>9
LEMMA LoseConnectionIInv ==
  ASSUME IInv, LoseConnection PROVE IInv'
BY DEF IInv, TypeOK, LoseConnection, LockDiscipline, Holding, Placed, Union, Size, LastRow

LEMMA EndLoopIInv ==
  ASSUME IInv, NEW s \in Stmt, EndLoop(s) PROVE IInv'
<1> USE DEF EndLoop, GoTo
<1>1. TypeOK'
  BY DEF IInv, TypeOK
<1>2. Placed(s)' /\ ~Holding(s) /\ ~Holding(s)'
  BY Ranges DEF IInv, TypeOK, Placed, Holding, Union, Size, LastRow, Sending
<1> QED BY <1>1, <1>2, OneThread DEF IInv, TypeOK

LEMMA ReturnIInv ==
  ASSUME IInv, NEW s \in Stmt, Return(s) PROVE IInv'
<1> USE DEF Return, GoTo, Local
<1>1. TypeOK'
  BY NoJobType, NewFrameType DEF IInv, TypeOK, NoStatus
<1>2. Placed(s)' /\ ~Holding(s) /\ ~Holding(s)'
  BY DEF IInv, TypeOK, Placed, NewFrame, NoJob, Holding, Sending
<1> QED BY <1>1, <1>2, OneThread DEF IInv, TypeOK

LEMMA CancelIInv ==
  ASSUME IInv, NEW s \in Stmt, Cancel(s) PROVE IInv'
BY DEF IInv, TypeOK, Cancel, LockDiscipline, Holding, Placed, Union, Size, LastRow

LEMMA KillArrivesIInv ==
  ASSUME IInv, KillArrives PROVE IInv'
<1>1. ASSUME NEW s \in Stmt, pc[s] = "running", Failed(s) PROVE IInv'
  BY <1>1, FailedIInv DEF KillArrives, Talking
<1>2. ASSUME UNCHANGED <<lock, buff, sql_select_limit, limit, up, more_results, pc, job,
                         frame, status>>
      PROVE  IInv'
  BY <1>2 DEF KillArrives, IInv, TypeOK, LockDiscipline, Holding, Placed, Union, Size, LastRow
<1> QED BY <1>1, <1>2 DEF KillArrives

LEMMA InitIInv == Init => IInv
<1> SUFFICES ASSUME Init PROVE IInv
  OBVIOUS
<1> USE DEF Init
<1>1. TypeOK
  BY NoJobType, NewFrameType, SharedConnectionAssumption DEF TypeOK, NoStatus
<1>2. \A s \in Stmt : Placed(s) /\ ~Holding(s)
  BY DEF Placed, Holding, Sending, NoJob, NewFrame
<1> QED BY <1>1, <1>2, SharedConnectionAssumption DEF IInv, LockDiscipline

LEMMA NextIInv == IInv /\ [Next]_vars => IInv'
<1> SUFFICES ASSUME IInv, [Next]_vars PROVE IInv'
  OBVIOUS
<1>1. ASSUME NEW s \in Stmt, Step(s) PROVE IInv'
  BY <1>1, DrainIInv, LockArrayIInv, PlainRoundIInv, IgnoreSetIInv, RefuseDataAtExecIInv, NeedDataIInv,
     TryLockIInv, WriteSetIInv, FailSetIInv, JoinSetIInv, CopyTextIInv, OtherStepsIInv,
     EndLoopIInv, ReturnIInv DEF Step
<1>2. ASSUME NEW s \in Stmt, Cancel(s) \/ \E j \in Job : Execute(s, j) PROVE IInv'
  BY <1>2, CancelIInv, ExecuteIInv
<1>3. CASE UNCHANGED vars
  BY <1>3 DEF vars, IInv, TypeOK, LockDiscipline, Holding, Placed, Union, Size, LastRow
<1> QED BY <1>1, <1>2, <1>3, LoseConnectionIInv, KillArrivesIInv DEF Next

(* The lock's invariant holds in every execution of the threads.           *)
THEOREM Invariance == Spec => []IInv
<1> QED BY InitIInv, NextIInv, PTL DEF Spec

(* Type correctness: no text outgrows the array of parameter sets and no   *)
(* round is beyond its end, whatever threads do.                           *)
THEOREM TypeCorrect == Spec => []TypeOK
<1>1. IInv => TypeOK
  BY DEF IInv
<1> QED BY <1>1, Invariance, PTL

(* dbc->lock: a thread holds it exactly where my_SQLExecute, insert_params *)
(* and do_query say, under cancellation, lost connections, shared buffers  *)
(* and mixed limits alike.                                                 *)
THEOREM Locking == Spec => []LockDiscipline
<1>1. IInv => LockDiscipline
  BY DEF IInv
<1> QED BY <1>1, Invariance, PTL

-----------------------------------------------------------------------------
(***************************************************************************)
(* Limits.  As long as no two threads execute under different limits, the  *)
(* session's limit is a thread's own from the moment it has been compared  *)
(* or set until the query is done: whoever sets it meanwhile sets the same *)
(* value.                                                                  *)
(***************************************************************************)
Limited == {"cache", "lock_query", "put_query", "send_query", "running"}

OneLimit == \A s, t \in Stmt : pc[s] # "idle" /\ pc[t] # "idle" =>
                                job[s].limit = job[t].limit

LimitIs == \A s \in Stmt : pc[s] \in Limited => limit = job[s].limit

LimitInv == OneLimit /\ LimitIs /\ LimitCacheExact

LEMMA LimitUntouched ==
  ASSUME TypeOK, LimitInv, NEW s \in Stmt, pc[s] # "idle", pc[s] # "cache", NEW to,
         GoTo(s, to), to # "cache", to \in Limited => pc[s] \in Limited,
         UNCHANGED <<job, limit, sql_select_limit>>
  PROVE  LimitInv'
<1>1. pc'[s] = to /\ \A t \in Stmt \ {s} : pc'[t] = pc[t]
  BY DEF GoTo, TypeOK
<1>2. OneLimit'
  BY <1>1 DEF OneLimit, LimitInv
<1>3. LimitIs'
  BY <1>1 DEF LimitIs, LimitInv
<1>4. LimitCacheExact'
  BY <1>1 DEF LimitCacheExact, LimitInv
<1> QED BY <1>2, <1>3, <1>4 DEF LimitInv

LEMMA StepLimits ==
  ASSUME TypeOK, LimitInv, NEW s \in Stmt, Step(s) PROVE LimitInv'
<1>1. CASE \/ Drain(s) \/ Drained(s) \/ LockArray(s) \/ IgnoreSet(s)
           \/ RefuseDataAtExec(s) \/ NeedData(s) \/ TryLock(s) \/ WriteSet(s)
  <2>1. PICK to \in {"drain", "lock_array", "loop", "return", "need_data", "write",
                     "written"} : GoTo(s, to)
    <3>1. pc = [pc EXCEPT ![s] = pc[s]]
      BY DEF TypeOK
    <3> QED BY <1>1, <3>1 DEF Drain, Drained, LockArray, IgnoreSet, RefuseDataAtExec, NeedData, TryLock,
                              WriteSet, GoTo
  <2>2. UNCHANGED <<job, limit, sql_select_limit>> /\ pc[s] \notin {"idle", "cache"}
    BY <1>1 DEF Drain, Drained, LockArray, IgnoreSet, RefuseDataAtExec, NeedData, TryLock,
                WriteSet
  <2> QED BY <2>1, <2>2, LimitUntouched DEF Limited
<1>2. CASE PlainRound(s)
  <2>1. PICK to \in {"loop", "limit"} : GoTo(s, to)
    <3>1. pc = [pc EXCEPT ![s] = pc[s]]
      BY DEF TypeOK
    <3> QED BY <1>2, <3>1 DEF PlainRound, GoTo
  <2> QED BY <1>2, <2>1, LimitUntouched DEF PlainRound, Limited
<1>3. CASE FailSet(s) \/ JoinSet(s) \/ CopyText(s)
  <2>1. PICK to \in {"loop", "limit"} : GoTo(s, to)
    BY <1>3 DEF FailSet, JoinSet, CopyText, Continue
  <2> QED BY <1>3, <2>1, LimitUntouched DEF FailSet, JoinSet, CopyText, Limited
<1>4. CASE CheckLimit(s)
  <2>1. CASE frame[s].lost \/ job[s].limit # sql_select_limit
    <3>1. PICK to \in {"loop", "lock_limit"} : GoTo(s, to)
      BY <1>4, <2>1 DEF CheckLimit, RoundDone, Continue
    <3> QED BY <1>4, <3>1, LimitUntouched DEF CheckLimit, Limited
  <2>2. CASE ~frame[s].lost /\ job[s].limit = sql_select_limit
    <3>1. /\ pc'[s] = "lock_query" /\ \A t \in Stmt \ {s} : pc'[t] = pc[t]
          /\ pc[s] = "limit" /\ UNCHANGED <<job, limit, sql_select_limit>>
      BY <1>4, <2>2 DEF CheckLimit, GoTo, TypeOK
    <3>2. limit = job[s].limit
      <4>1. CASE \E t \in Stmt : pc[t] = "cache"
        BY <3>1, <4>1 DEF LimitInv, OneLimit, LimitIs, Limited
      <4>2. CASE \A t \in Stmt : pc[t] # "cache"
        <5>1. job[s].limit # None
          BY SharedConnectionAssumption DEF TypeOK, Job
        <5> QED BY <2>2, <4>2, <5>1 DEF LimitInv, LimitCacheExact
      <4> QED BY <4>1, <4>2
    <3> QED BY <3>1, <3>2 DEF LimitInv, OneLimit, LimitIs, LimitCacheExact, Limited
  <2> QED BY <2>1, <2>2
<1>5. CASE \/ LockForLimit(s) \/ LockForQuery(s) \/ PutLimit(s) \/ PutQuery(s)
           \/ SendQuery(s)
  <2>1. PICK to \in {"put_limit", "put_query", "send_limit", "send_query", "running"} :
           GoTo(s, to) /\ (to \in Limited => pc[s] \in Limited)
    BY <1>5 DEF LockForLimit, LockForQuery, PutLimit, PutQuery, SendQuery, Acquire, Limited
  <2>2. UNCHANGED <<job, limit, sql_select_limit>> /\ pc[s] \notin {"idle", "cache"}
    BY <1>5 DEF LockForLimit, LockForQuery, PutLimit, PutQuery, SendQuery, Acquire
  <2> QED BY <2>1, <2>2, LimitUntouched
<1>6. CASE SetLimit(s)
  <2>1. /\ pc'[s] = "cache" /\ \A t \in Stmt \ {s} : pc'[t] = pc[t]
        /\ pc[s] = "send_limit" /\ UNCHANGED <<job, sql_select_limit>>
        /\ limit' = job[s].limit
    BY <1>6 DEF SetLimit, GoTo, TypeOK
  <2>2. \A t \in Stmt : pc[t] # "idle" => job[t].limit = job[s].limit
    BY <2>1 DEF LimitInv, OneLimit
  <2> QED BY <2>1, <2>2 DEF LimitInv, OneLimit, LimitIs, LimitCacheExact, Limited
<1>7. CASE CacheLimit(s)
  <2>1. /\ pc'[s] = "lock_query" /\ \A t \in Stmt \ {s} : pc'[t] = pc[t]
        /\ pc[s] = "cache" /\ UNCHANGED <<job, limit>>
        /\ sql_select_limit' = job[s].limit /\ limit = job[s].limit
    BY <1>7 DEF CacheLimit, GoTo, TypeOK, LimitInv, LimitIs, Limited
  <2> QED BY <2>1 DEF LimitInv, OneLimit, LimitIs, LimitCacheExact, Limited
<1>8. CASE QueryDone(s) \/ CommandFails(s)
  <2>1. GoTo(s, "loop")
    BY <1>8 DEF QueryDone, CommandFails, Failed, RoundDone, Continue
  <2> QED BY <1>8, <2>1, LimitUntouched DEF QueryDone, CommandFails, Failed, Limited
<1>9. CASE EndLoop(s)
  BY <1>9, LimitUntouched DEF EndLoop, Limited
<1>10. CASE Return(s)
  <2>1. /\ pc'[s] = "idle" /\ \A t \in Stmt \ {s} : pc'[t] = pc[t] /\ job'[t] = job[t]
        /\ pc[s] = "return" /\ UNCHANGED <<limit, sql_select_limit>>
    BY <1>10 DEF Return, GoTo, TypeOK
  <2> QED BY <2>1 DEF LimitInv, OneLimit, LimitIs, LimitCacheExact, Limited
<1> QED BY <1>1, <1>2, <1>3, <1>4, <1>5, <1>6, <1>7, <1>8, <1>9, <1>10 DEF Step

LEMMA NextLimits ==
  ASSUME TypeOK, LimitInv, "mix_limits" \notin Practices, [Next]_vars
  PROVE  LimitInv'
<1>1. ASSUME NEW s \in Stmt, Step(s) PROVE LimitInv'
  BY <1>1, StepLimits
<1>2. ASSUME NEW s \in Stmt, NEW j \in Job, Execute(s, j) PROVE LimitInv'
  <2>1. /\ pc[s] = "idle" /\ pc'[s] = "drain"
        /\ job'[s] = j
        /\ \A t \in Stmt \ {s} : pc'[t] = pc[t] /\ job'[t] = job[t]
        /\ UNCHANGED <<limit, sql_select_limit>>
        /\ \A t \in Stmt : pc[t] # "idle" => job[t].limit = j.limit
    BY <1>2 DEF Execute, GoTo, TypeOK
  <2> QED BY <2>1 DEF LimitInv, OneLimit, LimitIs, LimitCacheExact, Limited
<1>3. CASE \/ (\E s \in Stmt : Cancel(s)) \/ LoseConnection \/ UNCHANGED vars
           \/ UNCHANGED <<pc, job, limit, sql_select_limit>>
  BY <1>3 DEF Cancel, LoseConnection, vars, LimitInv, OneLimit, LimitIs, LimitCacheExact
<1>4. ASSUME NEW s \in Stmt, pc[s] = "running", Failed(s) PROVE LimitInv'
  <2>1. GoTo(s, "loop")
    BY <1>4 DEF Failed, RoundDone, Continue
  <2> QED BY <1>4, <2>1, LimitUntouched DEF Failed, Limited
<1> QED BY <1>1, <1>2, <1>3, <1>4 DEF Next, KillArrives

LEMMA InitLimits == Init => LimitInv
BY DEF Init, LimitInv, OneLimit, LimitIs, LimitCacheExact, Limited

LEMMA LimitInvariance ==
  ASSUME "mix_limits" \notin Practices PROVE Spec => []LimitInv
<1>1. TypeOK /\ LimitInv /\ [Next]_vars => LimitInv'
  BY NextLimits
<1> QED BY <1>1, InitLimits, TypeCorrect, PTL DEF Spec

(* set_sql_select_limit: unless threads mix limits every query runs under  *)
(* its own statement's SQL_ATTR_MAX_ROWS.                                  *)
THEOREM LimitsHonoured ==
  ASSUME "mix_limits" \notin Practices PROVE Spec => []LimitHonoured
<1>1. LimitInv => LimitHonoured
  BY DEF LimitInv, LimitIs, LimitHonoured, Limited
<1> QED BY <1>1, LimitInvariance, PTL

(* dbc->sql_select_limit: unless threads mix limits the driver's copy is   *)
(* the session's limit whenever no call is about to update it.             *)
THEOREM LimitsCached ==
  ASSUME "mix_limits" \notin Practices PROVE Spec => []LimitCacheExact
<1>1. LimitInv => LimitCacheExact
  BY DEF LimitInv
<1> QED BY <1>1, LimitInvariance, PTL
-----------------------------------------------------------------------------
(***************************************************************************)
(* Texts and statuses, as long as no thread executes a query with          *)
(* parameters next to another ("share_buffer"): the texts that reach the   *)
(* server are intact, and the status array and the return code of an array *)
(* of parameters tell what was executed.                                   *)
(***************************************************************************)
Building == {"drain", "lock_array", "loop", "need_data", "write", "written"}

\* The usable sets up to the k-th, and the cell that the k-th occupies.
Upto(s, k) == {i \in 1 .. k : job[s].sets[i] = "use"}
Nth(s, k)  == IF job[s].select THEN Cardinality(Upto(s, k)) ELSE 1

(* A statement with parameters is executed while all others are idle. *)
Alone ==
  \A s \in Stmt : job[s].params =>
     /\ pc[s] # "idle"
     /\ \A t \in Stmt \ {s} : pc[t] = "idle"

(* The text while it is built in the packet buffer: the sets joined so far *)
(* in their order, and the present one behind them once it is written.     *)
Joined(s) ==
  pc[s] \in Building \cup Sending /\ frame[s].row <= Size(s) =>
     frame[s].length = IF job[s].select THEN Cardinality(Upto(s, frame[s].row - 1)) ELSE 0

Built(s) ==
  pc[s] \in Building /\ frame[s].row <= Size(s) /\ job[s].select =>
     \A k \in Upto(s, frame[s].row - 1) : buff[Nth(s, k)] = <<s, k>>

Written(s) == pc[s] = "written" => buff[frame[s].length + 1] = <<s, frame[s].row>>

(* ... once it is copied, and when it is back in the buffer.               *)
Copied(s) ==
  pc[s] \in Sending =>
     /\ AtSet(s, "use")
     /\ \A k \in Usable(s) : /\ Nth(s, k) \in 1 .. Len(frame[s].query)
                             /\ frame[s].query[Nth(s, k)] = <<s, k>>
     /\ ~job[s].select => frame[s].query = <<<<s, frame[s].row>>>>

Put(s) == pc[s] = "send_query" => \A k \in Usable(s) : buff[Nth(s, k)] = <<s, k>>

Whole(s) ==
  /\ pc[s] \in Sending => frame[s].query = <<<<s, WholeQuery>>>>
  /\ pc[s] = "send_query" => buff[1] = <<s, WholeQuery>>

TextOf(s) == IF job[s].params
             THEN Joined(s) /\ Built(s) /\ Written(s) /\ Copied(s) /\ Put(s)
             ELSE Whole(s)

TextInv == Alone /\ \A s \in Stmt : TextOf(s)

(* What my_SQLExecute has recorded of the sets before the present one.     *)
Recorded(s) ==
  LET f == frame[s] IN
  /\ pc[s] = "return" => f.row > Size(s)
  /\ \A k \in 1 .. Size(s) : /\ k < f.row => (status[s][k] = "success" <=> k \in f.executed)
                             /\ k >= f.row => k \notin f.executed
  /\ f.all_failed <=> Size(s) > 1 /\ f.executed = {}
  /\ f.rc = "error" => f.failed
  /\ f.executed # {} => f.rc # "unset"

BySets(s) == job[s].params /\ ~job[s].select /\ ~job[s].dae

StatusInv == \A s \in Stmt : BySets(s) => Recorded(s)
(* Nobody waits for an answer while results are unread. *)
Unread == more_results => \A s \in Stmt : pc[s] \notin {"send_limit", "send_query", "running"}
-----------------------------------------------------------------------------
(* Unread: libmysql sends nothing then, and results are left by the        *)
(* holder of the lock.                                                     *)
LEMMA UnreadKept ==
  ASSUME IInv, Unread, NEW s \in Stmt, NEW to, GoTo(s, to),
         to \notin {"send_limit", "send_query", "running"}
           \/ ~more_results' \/ pc[s] \in {"send_limit", "send_query"},
         more_results' => more_results \/ (pc[s] = "running" /\ to = "loop")
  PROVE  Unread'
<1>1. pc'[s] = to /\ \A t \in Stmt \ {s} : pc'[t] = pc[t]
  BY DEF GoTo, IInv, TypeOK
<1>2. \A t \in Stmt : pc[t] \in {"send_limit", "send_query", "running"} => lock = t
  BY DEF IInv, LockDiscipline, Holding
<1> QED BY <1>1, <1>2 DEF Unread

LEMMA NextUnread == IInv /\ Unread /\ [Next]_vars => Unread'
<1> SUFFICES ASSUME IInv, Unread, [Next]_vars PROVE Unread'
  OBVIOUS
<1>0. \A s \in Stmt : pc = [pc EXCEPT ![s] = pc[s]]
  BY DEF IInv, TypeOK
<1>1. ASSUME NEW s \in Stmt, PutLimit(s) \/ PutQuery(s) \/ SendQuery(s) PROVE Unread'
  BY <1>1, UnreadKept DEF PutLimit, PutQuery, SendQuery, Unread
<1>2. ASSUME NEW s \in Stmt, QueryDone(s) PROVE Unread'
  BY <1>2, UnreadKept DEF QueryDone, RoundDone, Continue
<1>3. ASSUME NEW s \in Stmt, Failed(s) PROVE Unread'
  BY <1>3, UnreadKept DEF Failed, RoundDone, Continue
<1>4. ASSUME NEW s \in Stmt, NEW j \in Job, Execute(s, j) PROVE Unread'
  BY <1>4, UnreadKept DEF Execute
<1>5. ASSUME NEW s \in Stmt, CheckLimit(s) PROVE Unread'
  <2>1. PICK to \in {"loop", "lock_query", "lock_limit"} : GoTo(s, to)
    BY <1>5 DEF CheckLimit, RoundDone, Continue
  <2> QED BY <1>5, <2>1, UnreadKept DEF CheckLimit
<1>6. ASSUME NEW s \in Stmt,
             \/ LockForLimit(s) \/ LockForQuery(s) \/ SetLimit(s) \/ CacheLimit(s)
             \/ EndLoop(s) \/ Return(s) \/ LockArray(s) \/ NeedData(s) \/ TryLock(s)
             \/ WriteSet(s) \/ RefuseDataAtExec(s)
      PROVE  Unread'
  <2>1. PICK to \in {"put_limit", "put_query", "cache", "lock_query", "return", "idle", "loop",
                     "need_data", "write", "written"} : GoTo(s, to)
    BY <1>6 DEF LockForLimit, LockForQuery, Acquire, SetLimit, CacheLimit, EndLoop, Return,
                LockArray, NeedData, TryLock, WriteSet, RefuseDataAtExec
  <2>2. more_results' = more_results
    BY <1>6 DEF LockForLimit, LockForQuery, Acquire, SetLimit, CacheLimit, EndLoop, Return,
                LockArray, NeedData, TryLock, WriteSet, RefuseDataAtExec
  <2> QED BY <2>1, <2>2, UnreadKept
<1>7. ASSUME NEW s \in Stmt, \/ Drained(s) \/ FailSet(s) \/ JoinSet(s) \/ CopyText(s)
                             \/ PlainRound(s) \/ IgnoreSet(s) \/ Drain(s)
      PROVE  Unread'
  <2>1. CASE pc' = pc
    <3>1. more_results' => more_results
      BY <1>7 DEF Drained, FailSet, JoinSet, CopyText, PlainRound, IgnoreSet, Drain
    <3> QED BY <2>1, <3>1 DEF Unread
  <2>2. CASE pc' # pc
    <3>1. PICK to \in {"loop", "limit", "lock_array"} : GoTo(s, to)
      BY <1>7, <2>2 DEF Drained, FailSet, JoinSet, CopyText, PlainRound, IgnoreSet, Drain,
                        Continue
    <3>2. more_results' = more_results
      BY <1>7, <2>2 DEF Drained, FailSet, JoinSet, CopyText, PlainRound, IgnoreSet, Drain
    <3> QED BY <3>1, <3>2, UnreadKept
  <2> QED BY <2>1, <2>2
<1>8. ASSUME UNCHANGED <<pc, more_results>> PROVE Unread'
  BY <1>8 DEF Unread
<1>9. CASE (\E s \in Stmt : Cancel(s)) \/ LoseConnection \/ UNCHANGED vars
  BY <1>8, <1>9 DEF Cancel, LoseConnection, vars
<1>10. CASE KillArrives
  BY <1>3, <1>8, <1>10 DEF KillArrives
<1>11. ASSUME NEW s \in Stmt, Step(s) PROVE Unread'
  BY <1>1, <1>2, <1>3, <1>5, <1>6, <1>7, <1>11 DEF Step, CommandFails
<1> QED BY <1>4, <1>9, <1>10, <1>11 DEF Next

LEMMA UnreadInvariance == Spec => []Unread
<1>1. Init => Unread
  BY DEF Init, Unread
<1> QED BY <1>1, NextUnread, Invariance, PTL DEF Spec

(* Counting the usable sets. *)
LEMMA UptoFinite ==
  ASSUME NEW s \in Stmt, NEW k \in Int
  PROVE  IsFiniteSet(Upto(s, k)) /\ Cardinality(Upto(s, k)) \in Nat
<1>1. IsFiniteSet(1 .. k)
  BY FS_Interval
<1>2. Upto(s, k) \in SUBSET (1 .. k)
  BY DEF Upto
<1>3. IsFiniteSet(Upto(s, k))
  BY <1>1, <1>2, FS_Subset
<1> QED BY <1>3, FS_CardinalityType

\* A set in use comes one behind those before it, another adds nothing.
LEMMA UptoNext ==
  ASSUME NEW s \in Stmt, NEW k \in Nat \ {0}
  PROVE  /\ job[s].sets[k] = "use" =>
              /\ Upto(s, k) = Upto(s, k - 1) \cup {k}
              /\ Cardinality(Upto(s, k)) = Cardinality(Upto(s, k - 1)) + 1
         /\ job[s].sets[k] # "use" => Upto(s, k) = Upto(s, k - 1)
<1>1. IsFiniteSet(Upto(s, k - 1)) /\ k \notin Upto(s, k - 1)
  BY UptoFinite DEF Upto
<1>2. 1 .. k = (1 .. (k - 1)) \cup {k}
  OBVIOUS
<1>3. CASE job[s].sets[k] = "use"
  <2>1. Upto(s, k) = Upto(s, k - 1) \cup {k}
    BY <1>2, <1>3 DEF Upto
  <2>2. Cardinality(Upto(s, k - 1) \cup {k}) = Cardinality(Upto(s, k - 1)) + 1
    BY <1>1, FS_AddElement
  <2> QED BY <1>3, <2>1, <2>2
<1>4. CASE job[s].sets[k] # "use"
  BY <1>2, <1>4 DEF Upto
<1> QED BY <1>3, <1>4

\* The cell of a set that is in the text lies within the text.
LEMMA NthInText ==
  ASSUME NEW s \in Stmt, job[s].select, NEW r \in Nat, NEW k \in Upto(s, r)
  PROVE  Nth(s, k) \in 1 .. Cardinality(Upto(s, r))
<1>1. k \in Int /\ r \in Int /\ Upto(s, k) \in SUBSET Upto(s, r) /\ k \in Upto(s, k)
  BY DEF Upto
<1>2. Cardinality(Upto(s, k)) <= Cardinality(Upto(s, r))
  BY <1>1, UptoFinite, FS_Subset
<1>3. Cardinality(Upto(s, k)) # 0
  BY <1>1, UptoFinite, FS_EmptySet
<1> QED BY <1>1, <1>2, <1>3, UptoFinite DEF Nth

LEMMA UsableSets ==
  ASSUME IInv, NEW s \in Stmt, frame[s].row <= Size(s)
  PROVE  /\ job[s].select => Usable(s) = Upto(s, frame[s].row)
         /\ ~job[s].select /\ AtSet(s, "use") => Usable(s) = {frame[s].row}
<1>1. DOMAIN job[s].sets = 1 .. Size(s) /\ Size(s) \in 1 .. MaxSets
  BY Ranges, SizeType DEF Size
<1>2. frame[s].row \in 1 .. MaxSets + 1
  BY Ranges
<1>3. CASE job[s].select
  BY <1>1, <1>2, <1>3 DEF Usable, Upto
<1>4. CASE ~job[s].select
  BY <1>1, <1>2, <1>4 DEF Usable, AtSet
<1> QED BY <1>3, <1>4

(* The invariant is about one statement's own state and, if it sends, the  *)
(* packet buffer: what another thread does leaves it as it is.             *)
LEMMA SameJob ==
  ASSUME NEW s \in Stmt, job'[s] = job[s]
  PROVE  /\ Size(s)' = Size(s)
         /\ \A k : Upto(s, k)' = Upto(s, k) /\ Nth(s, k)' = Nth(s, k)
         /\ frame'[s].row = frame[s].row => Usable(s)' = Usable(s)
<1>1. \A k : Upto(s, k)' = Upto(s, k)
  BY DEF Upto
<1>2. \A k : Nth(s, k)' = Nth(s, k)
  BY <1>1 DEF Nth
<1> QED BY <1>1, <1>2 DEF Usable, Size

LEMMA OtherThread ==
  ASSUME NEW s \in Stmt, TextOf(s), job'[s] = job[s], pc'[s] = pc[s],
         frame'[s] = frame[s], buff' = buff
  PROVE  TextOf(s)'
<1>1. CASE job[s].params
  <2>1. Joined(s)' /\ Built(s)' /\ Written(s)'
    BY <1>1, SameJob DEF TextOf, Joined, Built, Written
  <2>2. Copied(s)' /\ Put(s)'
    BY <1>1, SameJob DEF TextOf, Copied, Put, AtSet
  <2> QED BY <1>1, <2>1, <2>2 DEF TextOf
<1>2. CASE ~job[s].params
  BY <1>2 DEF TextOf, Whole
<1> QED BY <1>1, <1>2

\* ... even if it writes into the buffer, which it does holding the lock.
LEMMA OtherWrites ==
  ASSUME NEW s \in Stmt, TextOf(s), ~job[s].params, pc[s] # "send_query",
         job'[s] = job[s], pc'[s] = pc[s], frame'[s] = frame[s]
  PROVE  TextOf(s)'
BY DEF TextOf, Whole

LEMMA AloneKept ==
  ASSUME Alone, NEW s \in Stmt, TypeOK, pc[s] # "idle", job' = job,
         NEW to, GoTo(s, to), to # "idle"
  PROVE  Alone'
BY DEF Alone, GoTo, TypeOK

\* A step of a thread within a call.
LEMMA OneText ==
  ASSUME IInv, TextInv, NEW s \in Stmt, pc[s] # "idle", TextOf(s)',
         job' = job, NEW to, GoTo(s, to), to # "idle",
         \A t \in Stmt \ {s} : frame'[t] = frame[t],
         buff' = buff \/ (\A t \in Stmt \ {s} : pc[t] # "send_query")
  PROVE  TextInv'
<1>1. Alone'
  BY AloneKept DEF IInv, TextInv
<1>2. ASSUME NEW t \in Stmt \ {s} PROVE TextOf(t)'
  <2>1. ~job[t].params /\ pc'[t] = pc[t]
    BY DEF TextInv, Alone, GoTo, IInv, TypeOK
  <2>2. CASE buff' = buff
    BY <2>1, <2>2, OtherThread DEF TextInv
  <2>3. CASE pc[t] # "send_query"
    BY <2>1, <2>3, OtherWrites DEF TextInv
  <2> QED BY <2>2, <2>3
<1> QED BY <1>1, <1>2 DEF TextInv

\* A thread that is about to write into the buffer under the lock: nobody
\* else is about to send from it.
LEMMA LockedWrites ==
  ASSUME IInv, NEW s \in Stmt, pc[s] \in Talking
  PROVE  \A t \in Stmt \ {s} : pc[t] # "send_query"
<1>1. \A t \in Stmt : pc[t] = "send_query" => lock = t
  BY DEF IInv, LockDiscipline, Holding
<1>2. lock = s
  BY DEF IInv, LockDiscipline, Holding, Talking
<1> QED BY <1>1, <1>2

(* Building the text. *)
LEMMA DrainText ==
  ASSUME IInv, TextInv, Unread, NEW s \in Stmt, Drain(s) PROVE TextInv'
<1>1. /\ pc[s] = "drain" /\ more_results /\ job' = job /\ frame' = frame /\ pc' = pc
      /\ frame[s].row = 1
  BY DEF Drain, IInv, Placed
<1>2. GoTo(s, "drain")
  BY <1>1 DEF GoTo, IInv, TypeOK
<1>3. \A t \in Stmt : pc[t] # "send_query"
  BY <1>1 DEF Unread
<1>4. TextOf(s)'
  <2>1. CASE job[s].params
    <3>1. Joined(s)'
      BY <1>1, <2>1, SameJob DEF TextInv, TextOf, Joined
    <3>2. Upto(s, frame[s].row - 1)' = {}
      <4>1. \A i \in 1 .. 0 : FALSE
        OBVIOUS
      <4> QED BY <1>1, <4>1 DEF Upto
    <3> QED BY <1>1, <2>1, <3>1, <3>2 DEF TextOf, Built, Written, Copied, Put, Sending
  <2>2. CASE ~job[s].params
    BY <1>1, <2>2 DEF TextOf, Whole, Sending
  <2> QED BY <2>1, <2>2
<1> QED BY <1>1, <1>2, <1>3, <1>4, OneText

LEMMA PlainRoundText ==
  ASSUME IInv, TextInv, NEW s \in Stmt, PlainRound(s) PROVE TextInv'
<1>1. pc[s] # "idle" /\ ~job[s].params /\ job' = job /\ buff' = buff
  BY DEF PlainRound
<1>2. PICK to \in {"loop", "limit"} :
        /\ GoTo(s, to) /\ (to = "limit" => frame'[s].query = <<<<s, WholeQuery>>>>)
        /\ \A t \in Stmt \ {s} : frame'[t] = frame[t]
  <2>1. pc = [pc EXCEPT ![s] = pc[s]] /\ pc[s] = "loop"
    BY DEF IInv, TypeOK, PlainRound
  <2>2. frame[s] \in Frame
    BY Ranges
  <2>3. ASSUME Local(s, [frame[s] EXCEPT !.query = <<<<s, WholeQuery>>>>])
        PROVE  frame'[s].query = <<<<s, WholeQuery>>>>
    BY <2>2, <2>3 DEF Local, IInv, TypeOK, Frame
  <2> QED BY <2>1, <2>3 DEF PlainRound, GoTo, Local, IInv, TypeOK
<1>3. pc'[s] = to
  BY <1>2 DEF GoTo, IInv, TypeOK
<1>4. TextOf(s)'
  BY <1>1, <1>2, <1>3 DEF TextOf, Whole, Sending
<1> QED BY <1>1, <1>2, <1>4, OneText

\* Steps that leave the text of the thread and its place in the array alone.
LEMMA BuildingMove ==
  ASSUME IInv, TextInv, NEW s \in Stmt, pc[s] \in Building, job[s].params,
         NEW to \in Building \ {"written"}, GoTo(s, to), job' = job, buff' = buff,
         frame'[s].row = frame[s].row, frame'[s].length = frame[s].length,
         \A t \in Stmt \ {s} : frame'[t] = frame[t]
  PROVE  TextInv'
<1>1. pc'[s] = to /\ pc[s] # "idle" /\ to # "idle"
  BY DEF GoTo, IInv, TypeOK, Building
<1>2. Joined(s)' /\ Built(s)'
  BY <1>1, SameJob DEF TextInv, TextOf, Joined, Built
<1>3. TextOf(s)'
  BY <1>1, <1>2 DEF TextOf, Written, Copied, Put, Building, Sending
<1> QED BY <1>1, <1>3, OneText

LEMMA DrainedText ==
  ASSUME IInv, TextInv, NEW s \in Stmt, Drained(s) PROVE TextInv'
<1>1. /\ pc[s] = "drain" /\ job' = job /\ frame' = frame /\ buff' = buff
  BY DEF Drained
<1>2. PICK to \in {"lock_array", "loop"} : GoTo(s, to)
  BY DEF Drained
<1>3. CASE job[s].params
  BY <1>1, <1>2, <1>3, BuildingMove DEF Building
<1>4. CASE ~job[s].params
  <2>1. TextOf(s)'
    BY <1>1, <1>2, <1>4 DEF TextOf, Whole, Sending, GoTo, IInv, TypeOK
  <2> QED BY <1>1, <1>2, <2>1, OneText
<1> QED BY <1>3, <1>4

LEMMA EarlyText ==
  ASSUME IInv, TextInv, NEW s \in Stmt, LockArray(s) \/ NeedData(s) \/ TryLock(s)
  PROVE  TextInv'
<1>1. /\ job[s].params /\ pc[s] \in Building /\ job' = job /\ buff' = buff
  BY DEF LockArray, NeedData, TryLock, Building, IInv, Placed, Union
<1>2. /\ frame'[s].row = frame[s].row /\ frame'[s].length = frame[s].length
      /\ \A t \in Stmt \ {s} : frame'[t] = frame[t]
  BY Ranges DEF LockArray, NeedData, TryLock, Local, IInv, TypeOK, Frame
<1>3. PICK to \in {"loop", "need_data", "write"} : GoTo(s, to)
  BY DEF LockArray, NeedData, TryLock
<1> QED BY <1>1, <1>2, <1>3, BuildingMove DEF Building

\* The next round: the cells are those of the sets up to the present one.
LEMMA NextRound ==
  ASSUME IInv, TextInv, NEW s \in Stmt, job[s].params, frame[s].row <= Size(s),
         pc[s] \in Building, job' = job, buff' = buff, GoTo(s, "loop"),
         frame'[s].row = frame[s].row + 1,
         \A t \in Stmt \ {s} : frame'[t] = frame[t],
         job[s].select =>
           /\ frame'[s].length = Cardinality(Upto(s, frame[s].row))
           /\ \A k \in Upto(s, frame[s].row) : buff[Nth(s, k)] = <<s, k>>,
         ~job[s].select => frame'[s].length = 0
  PROVE  TextInv'
<1>1. pc'[s] = "loop" /\ frame[s].row \in Int /\ pc[s] # "idle"
  BY Ranges DEF GoTo, IInv, TypeOK, Building
<1>2. frame'[s].row - 1 = frame[s].row
  BY <1>1
<1>3. Joined(s)' /\ Built(s)'
  BY <1>1, <1>2, SameJob DEF Joined, Built
<1>4. TextOf(s)'
  BY <1>1, <1>3 DEF TextOf, Written, Copied, Put, Sending
<1> QED BY <1>1, <1>4, OneText

LEMMA SkippedSetText ==
  ASSUME IInv, TextInv, NEW s \in Stmt, IgnoreSet(s) \/ FailSet(s) PROVE TextInv'
<1>1. /\ job[s].params /\ frame[s].row <= Size(s) /\ job[s].sets[frame[s].row] # "use"
      /\ pc[s] \in Building /\ job' = job /\ buff' = buff
  BY DEF IgnoreSet, FailSet, AtSet, Building, IInv, Placed
<1>2. frame[s].row \in Nat \ {0} /\ frame[s].row <= MaxSets
  BY <1>1, Ranges, SharedConnectionAssumption
<1>3. /\ frame'[s].row = frame[s].row + 1 /\ frame'[s].length = frame[s].length
      /\ \A t \in Stmt \ {s} : frame'[t] = frame[t]
      /\ GoTo(s, "loop")
  <2>1. CASE IgnoreSet(s)
    <3>1. pc = [pc EXCEPT ![s] = pc[s]] /\ pc[s] = "loop" /\ pc' = pc
      BY <2>1 DEF IInv, TypeOK, IgnoreSet
    <3> QED BY <2>1, <3>1, Ranges DEF IgnoreSet, Local, GoTo, IInv, TypeOK, Frame
  <2>2. CASE FailSet(s)
    BY <1>2, <2>2, Ranges, ContinueType DEF FailSet, GoTo
  <2> QED BY <2>1, <2>2
<1>4. Upto(s, frame[s].row) = Upto(s, frame[s].row - 1)
  BY <1>1, <1>2, UptoNext
<1>5. Joined(s) /\ Built(s)
  BY <1>1 DEF TextInv, TextOf
<1> QED BY <1>1, <1>3, <1>4, <1>5, NextRound DEF Joined, Built

\* The sets before the present one and the present one behind them.
LEMMA TextSoFar ==
  ASSUME IInv, TextInv, NEW s \in Stmt, pc[s] = "written", AtSet(s, "use")
  PROVE  /\ job[s].params
         /\ job[s].select =>
              /\ frame[s].length + 1 = Cardinality(Upto(s, frame[s].row))
              /\ \A k \in Upto(s, frame[s].row) : buff[Nth(s, k)] = <<s, k>>
         /\ ~job[s].select =>
              frame[s].length = 0 /\ buff[1] = <<s, frame[s].row>>
<1>1. job[s].params /\ frame[s].row <= Size(s) /\ frame[s].row \in Nat \ {0}
  BY Ranges, SharedConnectionAssumption DEF IInv, Placed, AtSet
<1>2. Joined(s) /\ Built(s) /\ Written(s)
  BY <1>1 DEF TextInv, TextOf
<1>3. CASE job[s].select
  <2>1. /\ Upto(s, frame[s].row) = Upto(s, frame[s].row - 1) \cup {frame[s].row}
        /\ Cardinality(Upto(s, frame[s].row)) = Cardinality(Upto(s, frame[s].row - 1)) + 1
    BY <1>1, UptoNext DEF AtSet
  <2>2. frame[s].length = Cardinality(Upto(s, frame[s].row - 1))
    BY <1>1, <1>2, <1>3 DEF Joined, Building
  <2>3. \A k \in Upto(s, frame[s].row - 1) : buff[Nth(s, k)] = <<s, k>>
    BY <1>1, <1>2, <1>3 DEF Built, Building
  <2>4. Nth(s, frame[s].row) = frame[s].length + 1
    BY <1>3, <2>1, <2>2 DEF Nth
  <2>5. buff[Nth(s, frame[s].row)] = <<s, frame[s].row>>
    BY <1>2, <2>4 DEF Written
  <2> QED BY <1>1, <1>3, <2>1, <2>2, <2>3, <2>5
<1>4. CASE ~job[s].select
  BY <1>1, <1>2, <1>4 DEF Joined, Written, Building
<1> QED BY <1>1, <1>3, <1>4

LEMMA JoinSetText ==
  ASSUME IInv, TextInv, NEW s \in Stmt, JoinSet(s) PROVE TextInv'
<1> DEFINE f == [frame[s] EXCEPT !.length = @ + 1]
<1>1. /\ pc[s] = "written" /\ AtSet(s, "use") /\ job[s].select
      /\ job' = job /\ buff' = buff /\ Continue(s, f, "success")
  BY DEF JoinSet
<1>2. frame[s].row <= Size(s) /\ frame[s].row <= MaxSets
  BY <1>1, Ranges, SharedConnectionAssumption DEF AtSet
<1>3. frame[s].length + 1 \in 0 .. MaxSets
  BY <1>2, Ranges, SharedConnectionAssumption
<1>4. f \in Frame /\ f.row = frame[s].row /\ f.length = frame[s].length + 1
  BY <1>3, Ranges DEF Frame
<1> HIDE DEF f
<1>5. /\ frame'[s].row = frame[s].row + 1 /\ frame'[s].length = frame[s].length + 1
      /\ \A t \in Stmt \ {s} : frame'[t] = frame[t]
      /\ GoTo(s, "loop")
  BY <1>1, <1>2, <1>4, ContinueType DEF GoTo
<1> QED BY <1>1, <1>2, <1>5, TextSoFar, NextRound DEF Building

LEMMA WriteSetText ==
  ASSUME IInv, TextInv, NEW s \in Stmt, WriteSet(s) PROVE TextInv'
<1>1. /\ pc[s] = "write" /\ job' = job /\ frame' = frame /\ GoTo(s, "written")
      /\ buff' = [buff EXCEPT ![frame[s].length + 1] = <<s, frame[s].row>>]
      /\ job[s].params /\ frame[s].row <= Size(s) /\ frame[s].row \in Nat \ {0}
  BY Ranges, SharedConnectionAssumption DEF WriteSet, IInv, Placed
<1>2. pc'[s] = "written" /\ buff \in [1 .. MaxSets -> Cell \cup {None}]
  BY <1>1 DEF GoTo, IInv, TypeOK
<1>3. frame[s].length \in Nat /\ frame[s].length + 1 \in 1 .. MaxSets
  BY <1>1, Ranges, SharedConnectionAssumption
<1>4. Joined(s) /\ Built(s)
  BY <1>1 DEF TextInv, TextOf
<1>5. Joined(s)'
  BY <1>1, <1>2, <1>4, SameJob DEF Joined, Building
<1>6. Written(s)'
  BY <1>1, <1>2, <1>3 DEF Written
<1>7. Built(s)'
  <2>1. ASSUME job[s].select, NEW k \in Upto(s, frame[s].row - 1)
        PROVE  buff'[Nth(s, k)] = <<s, k>>
    <3>1. frame[s].length = Cardinality(Upto(s, frame[s].row - 1))
      BY <1>1, <1>4, <2>1 DEF Joined, Building
    <3>2. Nth(s, k) \in 1 .. frame[s].length
      BY <1>1, <2>1, <3>1, NthInText
    <3>3. buff[Nth(s, k)] = <<s, k>>
      BY <1>1, <1>4, <2>1 DEF Built, Building
    <3> QED BY <1>1, <1>2, <1>3, <3>2, <3>3, SharedConnectionAssumption
  <2> QED BY <1>1, <2>1, SameJob DEF Built
<1>8. TextOf(s)'
  BY <1>1, <1>2, <1>5, <1>6, <1>7 DEF TextOf, Copied, Put, Sending
<1>9. \A t \in Stmt \ {s} : pc[t] # "send_query"
  BY <1>1 DEF TextInv, Alone
<1> QED BY <1>1, <1>8, <1>9, OneText

LEMMA CopyTextText ==
  ASSUME IInv, TextInv, NEW s \in Stmt, CopyText(s) PROVE TextInv'
<1> DEFINE q == [k \in 1 .. frame[s].length + 1 |-> buff[k]]
<1>1. /\ pc[s] = "written" /\ AtSet(s, "use") /\ GoTo(s, "limit")
      /\ job' = job /\ buff' = buff /\ Local(s, [frame[s] EXCEPT !.query = q])
  BY DEF CopyText
<1>2. pc'[s] = "limit" /\ frame[s] \in Frame
  BY <1>1, Ranges DEF GoTo, IInv, TypeOK
<1> HIDE DEF q
<1>3. /\ frame'[s].row = frame[s].row /\ frame'[s].length = frame[s].length
      /\ frame'[s].query = q
      /\ \A t \in Stmt \ {s} : frame'[t] = frame[t]
  BY <1>1, <1>2 DEF Local, IInv, TypeOK, Frame
<1>4. /\ frame[s].length \in Nat /\ Len(q) = frame[s].length + 1
      /\ \A k \in 1 .. frame[s].length + 1 : q[k] = buff[k]
  BY Ranges, SharedConnectionAssumption DEF q
<1>5. frame[s].row <= Size(s) /\ frame[s].row \in Nat \ {0}
  BY <1>1, Ranges, SharedConnectionAssumption DEF AtSet
<1>6. job[s].params /\ Joined(s)
  BY <1>1, TextSoFar DEF TextInv, TextOf
<1>7. Joined(s)'
  BY <1>1, <1>2, <1>3, <1>6, SameJob DEF Joined, Building, Sending
<1>8. Copied(s)'
  <2>1. AtSet(s, "use")'
    BY <1>1, <1>3, SameJob DEF AtSet
  <2>2. CASE job[s].select
    <3>1. ASSUME NEW k \in Upto(s, frame[s].row)
          PROVE  Nth(s, k) \in 1 .. Len(q) /\ q[Nth(s, k)] = <<s, k>>
      BY <1>1, <1>4, <1>5, <2>2, TextSoFar, NthInText
    <3>2. Usable(s)' = Upto(s, frame[s].row)
      BY <1>1, <1>3, <1>5, <2>2, UsableSets, SameJob
    <3> QED BY <1>1, <1>3, <2>1, <2>2, <3>1, <3>2, SameJob DEF Copied
  <2>3. CASE ~job[s].select
    <3>1. Usable(s)' = {frame[s].row}
      BY <1>1, <1>3, <1>5, <2>3, UsableSets, SameJob
    <3>2. frame[s].length = 0 /\ buff[1] = <<s, frame[s].row>>
      BY <1>1, <2>3, TextSoFar
    <3>3. q = <<<<s, frame[s].row>>>>
      BY <3>2 DEF q
    <3>4. Nth(s, frame[s].row)' = 1
      BY <1>1, <2>3, SameJob DEF Nth
    <3> QED BY <1>1, <1>3, <2>1, <2>3, <3>1, <3>3, <3>4 DEF Copied
  <2> QED BY <2>2, <2>3
<1>9. TextOf(s)'
  BY <1>1, <1>2, <1>6, <1>7, <1>8 DEF TextOf, Built, Written, Put, Building
<1> QED BY <1>1, <1>3, <1>9, OneText

(* Sending the text. *)
LEMMA SendingText ==
  ASSUME IInv, TextInv, NEW s \in Stmt, pc[s] \in Sending, NEW to \in Sending, GoTo(s, to),
         job' = job, frame' = frame,
         to = "send_query" => TextOf(s)',
         buff' = buff \/ (\A t \in Stmt \ {s} : pc[t] # "send_query")
  PROVE  TextInv'
<1>1. pc'[s] = to /\ pc[s] # "idle" /\ to # "idle" /\ to \notin Building
  BY DEF GoTo, IInv, TypeOK, Sending, Building
<1>2. ASSUME to # "send_query" PROVE TextOf(s)'
  <2>1. CASE job[s].params
    <3>1. Joined(s)' /\ Copied(s)'
      BY <1>1, <2>1, SameJob DEF TextInv, TextOf, Joined, Copied, AtSet
    <3> QED BY <1>1, <1>2, <2>1, <3>1 DEF TextOf, Built, Written, Put, Building
  <2>2. CASE ~job[s].params
    BY <1>1, <1>2, <2>2 DEF TextInv, TextOf, Whole
  <2> QED BY <2>1, <2>2
<1> QED BY <1>1, <1>2, OneText

LEMMA PutQueryText ==
  ASSUME IInv, TextInv, NEW s \in Stmt, PutQuery(s) PROVE TextInv'
<1>1. /\ pc[s] = "put_query" /\ job' = job /\ frame' = frame /\ GoTo(s, "send_query")
      /\ buff' = [k \in 1 .. MaxSets |-> IF k <= Len(frame[s].query)
                                         THEN frame[s].query[k] ELSE buff[k]]
  BY DEF PutQuery
<1>2. PICK n \in 0 .. MaxSets : frame[s].query \in [1 .. n -> Cell \cup {None}]
  BY Ranges DEF Frame
<1>3. Len(frame[s].query) = n /\ n \in Nat /\ n <= MaxSets
  BY <1>2, SharedConnectionAssumption
<1>4. pc'[s] = "send_query"
  BY <1>1 DEF GoTo, IInv, TypeOK
<1>5. \A i \in 1 .. n : buff'[i] = frame[s].query[i]
  BY <1>1, <1>3, SharedConnectionAssumption
<1>6. TextOf(s)'
  <2>1. CASE job[s].params
    <3>1. Joined(s) /\ Copied(s)
      BY <2>1 DEF TextInv, TextOf
    <3>2. Joined(s)' /\ Copied(s)'
      BY <1>1, <1>4, <3>1, SameJob DEF Joined, Copied, AtSet, Sending
    <3>3. Put(s)'
      BY <1>1, <1>3, <1>5, <3>1, SameJob DEF Put, Copied, Sending
    <3> QED BY <1>1, <1>4, <2>1, <3>2, <3>3 DEF TextOf, Built, Written, Building
  <2>2. CASE ~job[s].params
    <3>1. frame[s].query = <<<<s, WholeQuery>>>>
      BY <1>1, <2>2 DEF TextInv, TextOf, Whole, Sending
    <3>2. Len(frame[s].query) = 1 /\ frame[s].query[1] = <<s, WholeQuery>>
      BY <3>1
    <3>3. buff'[1] = <<s, WholeQuery>>
      BY <1>3, <1>5, <3>2
    <3> QED BY <1>1, <2>2, <3>1, <3>3 DEF TextOf, Whole
  <2> QED BY <2>1, <2>2
<1> QED BY <1>1, <1>6, SendingText, LockedWrites DEF Sending, Talking

\* The facts of a round's end that the invariants speak of.
LEMMA RoundEnd ==
  ASSUME IInv, NEW s \in Stmt, pc[s] \in Sending, NEW rc \in {"success", "error"},
         NEW f \in Frame, f.row = frame[s].row, RoundDone(s, f, rc)
  PROVE  /\ GoTo(s, "loop") /\ SetStatus(s, rc)
         /\ \A t \in Stmt \ {s} : frame'[t] = frame[t]
         /\ frame'[s].row = frame[s].row + 1 /\ frame'[s].length = 0
         /\ frame'[s].executed = f.executed /\ frame'[s].rc = rc
         /\ frame'[s].failed = (f.failed \/ rc # "success")
         /\ frame'[s].all_failed = (f.all_failed /\ rc # "success")
<1> DEFINE a == f.all_failed /\ rc # "success"
           g == [f EXCEPT !.length = 0, !.query = <<>>, !.locked = FALSE,
                          !.all_failed = a]
           h == [g EXCEPT !.row = @ + 1, !.rc = rc, !.failed = @ \/ rc # "success"]
<1>1. frame' = [frame EXCEPT ![s] = h] /\ GoTo(s, "loop") /\ SetStatus(s, rc)
  BY DEF RoundDone, Continue, Local
<1>2. /\ g.row = frame[s].row /\ g.length = 0 /\ g.all_failed = a
      /\ g.executed = f.executed /\ g.failed = f.failed
      /\ g \in Frame
  <2>1. a \in BOOLEAN
    OBVIOUS
  <2>2. g \in Frame
    BY RoundDoneFrame
  <2> HIDE DEF a
  <2> QED BY <2>2 DEF Frame
<1>3. /\ h.row = g.row + 1 /\ h.length = g.length /\ h.all_failed = g.all_failed
      /\ h.executed = g.executed /\ h.rc = rc /\ h.failed = (g.failed \/ rc # "success")
  <2> HIDE DEF g
  <2> QED BY <1>2 DEF Frame
<1>4. frame'[s] = h /\ \A t \in Stmt \ {s} : frame'[t] = frame[t]
  BY <1>1 DEF IInv, TypeOK
<1>5. a = (f.all_failed /\ rc # "success")
  OBVIOUS
<1> HIDE DEF a, g, h
<1>6. /\ frame'[s].row = frame[s].row + 1 /\ frame'[s].length = 0
      /\ frame'[s].executed = f.executed /\ frame'[s].rc = rc
  BY <1>2, <1>3, <1>4
<1>7. frame'[s].all_failed = (f.all_failed /\ rc # "success")
  BY <1>2, <1>3, <1>4, <1>5
<1>8. frame'[s].failed = (f.failed \/ rc # "success")
  BY <1>2, <1>3, <1>4
<1> QED BY <1>1, <1>4, <1>6, <1>7, <1>8

LEMMA RoundDoneText ==
  ASSUME IInv, TextInv, NEW s \in Stmt, pc[s] \in Sending, NEW rc \in {"success", "error"},
         NEW f \in Frame, f.row = frame[s].row, RoundDone(s, f, rc),
         job' = job, buff' = buff \/ pc[s] \in Talking
  PROVE  TextInv'
<1>1. /\ GoTo(s, "loop") /\ frame'[s].row = frame[s].row + 1 /\ frame'[s].length = 0
      /\ \A t \in Stmt \ {s} : frame'[t] = frame[t]
  BY RoundEnd
<1>2. pc'[s] = "loop" /\ pc[s] # "idle"
  BY <1>1 DEF GoTo, IInv, TypeOK, Sending
<1>3. /\ frame[s].row <= Size(s) /\ (Union(s) => LastRow(s))
      /\ frame[s].row \in Nat \ {0} /\ Size(s) \in Nat
  BY Ranges, SharedConnectionAssumption DEF IInv, Placed
<1>4. job[s].params /\ job[s].select => frame'[s].row > Size(s)
  BY <1>1, <1>3 DEF Union, LastRow
<1>5. TextOf(s)'
  <2>1. CASE job[s].params
    <3>1. Joined(s)' /\ Built(s)'
      BY <1>1, <1>3, <1>4, <2>1, SameJob DEF Joined, Built
    <3> QED BY <1>2, <2>1, <3>1 DEF TextOf, Written, Copied, Put, Sending
  <2>2. CASE ~job[s].params
    BY <1>2, <2>2 DEF TextOf, Whole, Sending
  <2> QED BY <2>1, <2>2
<1> QED BY <1>1, <1>2, <1>5, OneText, LockedWrites

LEMMA FailedText ==
  ASSUME IInv, TextInv, NEW s \in Stmt, pc[s] \in Talking, Failed(s)
  PROVE  TextInv'
<1>1. /\ [frame[s] EXCEPT !.lost = ~up] \in Frame
      /\ [frame[s] EXCEPT !.lost = ~up].row = frame[s].row
  BY LostFrame
<1> QED BY <1>1, RoundDoneText DEF Failed, Talking, Sending

LEMMA SendingStepsText ==
  ASSUME IInv, TextInv, NEW s \in Stmt,
         \/ CheckLimit(s) \/ LockForLimit(s) \/ LockForQuery(s) \/ PutLimit(s)
         \/ SetLimit(s) \/ CacheLimit(s) \/ SendQuery(s)
         \/ QueryDone(s) \/ CommandFails(s)
  PROVE  TextInv'
<1>1. CASE CheckLimit(s)
  <2>1. CASE frame[s].lost
    BY <1>1, <2>1, Ranges, RoundDoneText DEF CheckLimit, Sending
  <2>2. CASE ~frame[s].lost
    BY <1>1, <2>2, SendingText DEF CheckLimit, Sending
  <2> QED BY <2>1, <2>2
<1>2. CASE LockForLimit(s) \/ LockForQuery(s) \/ CacheLimit(s) \/ SendQuery(s)
  <2>1. PICK to \in Sending \ {"send_query"} : GoTo(s, to)
    BY <1>2 DEF LockForLimit, LockForQuery, Acquire, CacheLimit, SendQuery, Sending
  <2>2. pc[s] \in Sending /\ job' = job /\ frame' = frame /\ buff' = buff
    BY <1>2 DEF LockForLimit, LockForQuery, Acquire, CacheLimit, SendQuery, Sending
  <2> QED BY <2>1, <2>2, SendingText
<1>3. CASE PutLimit(s)
  BY <1>3, SendingText, LockedWrites DEF PutLimit, Sending, Talking
<1>6. CASE SetLimit(s)
  BY <1>6, SendingText, LockedWrites DEF SetLimit, Sending, Talking
<1>4. CASE QueryDone(s)
  <2> DEFINE f == [frame[s] EXCEPT !.executed = @ \cup Executed(s)]
  <2>1. frame[s].row \in 1 .. MaxSets
    BY <1>4, Ranges, SharedConnectionAssumption DEF QueryDone, IInv, Placed, Sending
  <2>2. Executed(s) \subseteq 1 .. MaxSets
    BY <2>1 DEF Executed
  <2>3. f \in Frame /\ f.row = frame[s].row
    BY <2>2, Ranges DEF Frame
  <2>4. RoundDone(s, f, "success")
    BY <1>4 DEF QueryDone
  <2> HIDE DEF f
  <2> QED BY <1>4, <2>3, <2>4, RoundDoneText DEF QueryDone, Talking, Sending
<1>5. CASE CommandFails(s)
  BY <1>5, FailedText DEF CommandFails, Talking
<1> QED BY <1>1, <1>2, <1>3, <1>4, <1>5, <1>6

(* The ends of a call, and what other threads and the server do.           *)
LEMMA EndText ==
  ASSUME IInv, TextInv, NEW s \in Stmt, EndLoop(s) \/ RefuseDataAtExec(s) PROVE TextInv'
<1>1. /\ pc[s] = "loop" /\ job' = job /\ buff' = buff /\ GoTo(s, "return")
      /\ \A t \in Stmt \ {s} : frame'[t] = frame[t]
  BY DEF EndLoop, RefuseDataAtExec, Local, IInv, TypeOK
<1>2. pc'[s] = "return"
  BY <1>1 DEF GoTo, IInv, TypeOK
<1>3. TextOf(s)'
  BY <1>2 DEF TextOf, Joined, Built, Written, Copied, Put, Whole, Building, Sending
<1> QED BY <1>1, <1>3, OneText

LEMMA ReturnText ==
  ASSUME IInv, TextInv, NEW s \in Stmt, Return(s) PROVE TextInv'
<1>1. /\ pc[s] = "return" /\ pc'[s] = "idle" /\ ~job'[s].params /\ buff' = buff
      /\ \A t \in Stmt \ {s} : job'[t] = job[t] /\ pc'[t] = pc[t] /\ frame'[t] = frame[t]
  BY DEF Return, GoTo, Local, NoJob, IInv, TypeOK
<1>2. Alone'
  BY <1>1 DEF TextInv, Alone
<1>3. TextOf(s)'
  BY <1>1 DEF TextOf, Whole, Sending
<1> QED BY <1>1, <1>2, <1>3, OtherThread DEF TextInv

LEMMA ExecuteText ==
  ASSUME IInv, TextInv, "share_buffer" \notin Practices,
         NEW s \in Stmt, NEW j \in Job, Execute(s, j)
  PROVE  TextInv'
<1>1. /\ pc[s] = "idle" /\ pc'[s] = "drain" /\ job'[s] = j /\ buff' = buff
      /\ frame'[s] = NewFrame(j)
      /\ \A t \in Stmt \ {s} : job'[t] = job[t] /\ pc'[t] = pc[t] /\ frame'[t] = frame[t]
      /\ \A t \in Stmt : pc[t] # "idle" => ~j.params /\ ~job[t].params
  BY DEF Execute, GoTo, Local, IInv, TypeOK
<1>2. Alone'
  BY <1>1 DEF TextInv, Alone
<1>3. TextOf(s)'
  <2>1. frame'[s].row = 1 /\ frame'[s].length = 0
    BY <1>1 DEF NewFrame
  <2>2. \A i \in 1 .. 0 : FALSE
    OBVIOUS
  <2>3. Upto(s, 0)' = {}
    BY <2>2 DEF Upto
  <2>4. Upto(s, frame[s].row - 1)' = {}
    BY <2>1, <2>3
  <2>5. Joined(s)' /\ Built(s)'
    BY <2>1, <2>4, FS_EmptySet DEF Joined, Built
  <2> QED BY <1>1, <2>5 DEF TextOf, Written, Copied, Put, Whole, Sending
<1> QED BY <1>1, <1>2, <1>3, OtherThread DEF TextInv

LEMMA InitText == Init => TextInv
BY DEF Init, TextInv, Alone, TextOf, Whole, NoJob, Sending

LEMMA NextText ==
  ASSUME IInv, TextInv, Unread, "share_buffer" \notin Practices, [Next]_vars
  PROVE  TextInv'
<1>1. ASSUME NEW s \in Stmt, Step(s) PROVE TextInv'
  BY <1>1, DrainText, DrainedText, PlainRoundText, EarlyText, SkippedSetText, WriteSetText, JoinSetText, CopyTextText,
     PutQueryText, SendingStepsText, EndText, ReturnText DEF Step
<1>2. ASSUME NEW s \in Stmt, NEW j \in Job, Execute(s, j) PROVE TextInv'
  BY <1>2, ExecuteText
<1>4. ASSUME NEW s \in Stmt, pc[s] = "running", Failed(s) PROVE TextInv'
  BY <1>4, FailedText DEF Talking
<1>3. CASE \/ (\E s \in Stmt : Cancel(s)) \/ LoseConnection \/ UNCHANGED vars
           \/ UNCHANGED <<pc, job, frame, buff>>
  <2>1. UNCHANGED <<pc, job, frame, buff>>
    BY <1>3 DEF Cancel, LoseConnection, vars
  <2>2. Alone'
    BY <2>1 DEF TextInv, Alone
  <2> QED BY <2>1, <2>2, OtherThread DEF TextInv
<1> QED BY <1>1, <1>2, <1>3, <1>4 DEF Next, KillArrives

LEMMA TextInvariance ==
  ASSUME "share_buffer" \notin Practices PROVE Spec => []TextInv
<1>1. IInv /\ Unread /\ TextInv /\ [Next]_vars => TextInv'
  BY NextText
<1> QED BY <1>1, InitText, Invariance, UnreadInvariance, PTL DEF Spec

(* insert_params, mysql_real_query: unless a query with parameters is      *)
(* executed next to another statement, what is sent from the packet buffer *)
(* is the statement's own text, each usable set in its place.              *)
THEOREM TextsIntact ==
  ASSUME "share_buffer" \notin Practices PROVE Spec => []QueryIntact
<1>1. ASSUME IInv, TextInv PROVE QueryIntact
  <2> SUFFICES ASSUME NEW s \in Stmt, pc[s] = "send_query", job[s].params,
                      NEW k \in Usable(s)
               PROVE  buff[Cardinality(Usable(s) \cap 1 .. k)] = <<s, k>>
    BY <1>1 DEF QueryIntact, TextInv, TextOf, Whole
  <2>1. /\ frame[s].row <= Size(s) /\ AtSet(s, "use") /\ frame[s].row \in Nat
        /\ buff[Nth(s, k)] = <<s, k>>
    BY <1>1, Ranges, SharedConnectionAssumption
       DEF TextInv, TextOf, Copied, Put, IInv, Placed, Sending
  <2>2. Cardinality(Usable(s) \cap 1 .. k) = Nth(s, k)
    <3>1. CASE job[s].select
      <4>1. Usable(s) = Upto(s, frame[s].row)
        BY <1>1, <2>1, <3>1, UsableSets
      <4>2. Usable(s) \cap 1 .. k = Upto(s, k)
        BY <2>1, <4>1 DEF Upto
      <4> QED BY <3>1, <4>2 DEF Nth
    <3>2. CASE ~job[s].select
      <4>1. Usable(s) = {frame[s].row}
        BY <1>1, <2>1, <3>2, UsableSets
      <4>2. k = frame[s].row /\ k \in Nat \ {0}
        BY <1>1, <4>1, Ranges, SharedConnectionAssumption
      <4>3. Usable(s) \cap 1 .. k = {k}
        BY <4>1, <4>2
      <4> QED BY <3>2, <4>3, FS_Singleton DEF Nth
    <3> QED BY <3>1, <3>2
  <2> QED BY <2>1, <2>2
<1> QED BY <1>1, Invariance, TextInvariance, PTL

-----------------------------------------------------------------------------
(***************************************************************************)
(* The status array and the return code.  A set is recorded when its round *)
(* ends: as executed and successful, or as neither.                        *)
(***************************************************************************)
RecordOf(s) == BySets(s) => Recorded(s)

LEMMA OtherRecord ==
  ASSUME NEW s \in Stmt, RecordOf(s), job'[s] = job[s], frame'[s] = frame[s],
         status'[s] = status[s], pc'[s] = "return" => pc[s] = "return"
  PROVE  RecordOf(s)'
BY SameJob DEF RecordOf, BySets, Recorded

\* A step of one thread that writes no other's status.
LEMMA OneRecord ==
  ASSUME IInv, StatusInv, NEW s \in Stmt, RecordOf(s)', job' = job, NEW to, GoTo(s, to),
         \A t \in Stmt \ {s} : frame'[t] = frame[t] /\ status'[t] = status[t]
  PROVE  StatusInv'
<1>1. \A t \in Stmt \ {s} : pc'[t] = pc[t]
  BY DEF GoTo, IInv, TypeOK
<1>2. \A t \in Stmt \ {s} : RecordOf(t)'
  BY <1>1, OtherRecord DEF StatusInv, RecordOf
<1> QED BY <1>2 DEF StatusInv, RecordOf

LEMMA SetStatusValue ==
  ASSUME IInv, NEW s \in Stmt, frame[s].row <= Size(s), NEW st, SetStatus(s, st)
  PROVE  /\ \A t \in Stmt \ {s} : status'[t] = status[t]
         /\ \A k \in 1 .. MaxSets \ {frame[s].row} : status'[s][k] = status[s][k]
         /\ BySets(s) => status'[s][frame[s].row] = st
<1>1. frame[s].row \in 1 .. MaxSets
  BY Ranges, SharedConnectionAssumption
<1>2. status \in [Stmt -> [1 .. MaxSets -> {"none", "success", "error", "unused"}]]
  BY DEF IInv, TypeOK
<1> QED BY <1>1, <1>2 DEF SetStatus, BySets

\* A round's end: the set's status says whether it has just been executed.
LEMMA RoundRecord ==
  ASSUME IInv, StatusInv, NEW s \in Stmt, frame[s].row <= Size(s), pc[s] # "return",
         job' = job, GoTo(s, "loop"),
         \A t \in Stmt \ {s} : frame'[t] = frame[t],
         NEW st, SetStatus(s, st),
         frame'[s].row = frame[s].row + 1,
         BySets(s) =>
           /\ \/ /\ st = "success" /\ frame'[s].rc = "success"
                 /\ frame'[s].executed = frame[s].executed \cup {frame[s].row}
                 /\ frame'[s].all_failed = FALSE
              \/ /\ st # "success" /\ frame'[s].executed = frame[s].executed
                 /\ frame'[s].all_failed = frame[s].all_failed
                 /\ \/ frame'[s].rc = "error" /\ frame'[s].failed
                    \/ frame'[s].rc = frame[s].rc /\ frame'[s].failed = frame[s].failed
  PROVE  StatusInv'
<1>1. /\ \A t \in Stmt \ {s} : status'[t] = status[t]
      /\ \A k \in 1 .. MaxSets \ {frame[s].row} : status'[s][k] = status[s][k]
      /\ BySets(s) => status'[s][frame[s].row] = st
  BY SetStatusValue
<1>2. frame[s].row \in Nat \ {0} /\ Size(s) \in 1 .. MaxSets
  BY Ranges, SharedConnectionAssumption
<1>3. ASSUME BySets(s) PROVE Recorded(s)'
  <2>1. Recorded(s)
    BY <1>3 DEF StatusInv
  <2>2. pc'[s] = "loop" /\ Size(s)' = Size(s)
    BY SameJob DEF GoTo, IInv, TypeOK
  <2>3. ASSUME NEW k \in 1 .. Size(s)
        PROVE  /\ k < frame'[s].row => (status'[s][k] = "success" <=> k \in frame'[s].executed)
               /\ k >= frame'[s].row => k \notin frame'[s].executed
    <3>1. k \in 1 .. MaxSets
      BY <1>2, SharedConnectionAssumption
    <3>2. CASE k = frame[s].row
      BY <1>1, <1>2, <1>3, <2>1, <2>3, <3>2 DEF Recorded
    <3>3. CASE k # frame[s].row
      BY <1>1, <1>2, <1>3, <2>1, <2>3, <3>1, <3>3 DEF Recorded
    <3> QED BY <3>2, <3>3
  <2>4. frame'[s].all_failed <=> Size(s) > 1 /\ frame'[s].executed = {}
    BY <1>3, <2>1 DEF Recorded
  <2>5. /\ frame'[s].rc = "error" => frame'[s].failed
        /\ frame'[s].executed # {} => frame'[s].rc # "unset"
    BY <1>3, <2>1 DEF Recorded
  <2> QED BY <2>2, <2>3, <2>4, <2>5 DEF Recorded
<1>4. RecordOf(s)'
  BY <1>3 DEF RecordOf, BySets
<1> QED BY <1>1, <1>4, OneRecord

\* What Recorded speaks of is kept.
SameRecord(s) ==
  /\ frame'[s].row = frame[s].row /\ frame'[s].executed = frame[s].executed
  /\ frame'[s].rc = frame[s].rc /\ frame'[s].failed = frame[s].failed
  /\ frame'[s].all_failed = frame[s].all_failed

LEMMA QuietRecord ==
  ASSUME IInv, StatusInv, NEW s \in Stmt, job' = job, SameRecord(s),
         NEW to, GoTo(s, to), to = "return" => frame[s].row > Size(s),
         \A t \in Stmt \ {s} : frame'[t] = frame[t] /\ status'[t] = status[t],
         \A k \in 1 .. MaxSets : k < frame[s].row => status'[s][k] = status[s][k]
  PROVE  StatusInv'
<1>1. pc'[s] = to
  BY DEF GoTo, IInv, TypeOK
<1>2. Size(s) \in 1 .. MaxSets /\ Size(s)' = Size(s) /\ MaxSets \in Nat
  BY Ranges, SameJob, SharedConnectionAssumption
<1>3. ASSUME BySets(s) PROVE Recorded(s)'
  <2>1. Recorded(s)
    BY <1>3 DEF StatusInv
  <2>2. \A k \in 1 .. Size(s) : k \in 1 .. MaxSets
    BY <1>2
  <2> QED BY <1>1, <1>2, <2>1, <2>2 DEF Recorded, SameRecord
<1>4. RecordOf(s)'
  BY <1>3 DEF RecordOf, BySets
<1> QED BY <1>4, OneRecord

LEMMA QuietSteps ==
  ASSUME IInv, StatusInv, NEW s \in Stmt,
         \/ Drain(s) \/ Drained(s)
         \/ LockArray(s) \/ NeedData(s) \/ TryLock(s) \/ WriteSet(s)
         \/ LockForLimit(s) \/ LockForQuery(s) \/ PutLimit(s) \/ PutQuery(s)
         \/ SetLimit(s) \/ CacheLimit(s) \/ SendQuery(s) \/ EndLoop(s)
         \/ (CheckLimit(s) /\ ~frame[s].lost)
  PROVE  StatusInv'
<1>1. job' = job /\ status' = status
  BY DEF Drain, Drained, LockArray, NeedData, TryLock, WriteSet, LockForLimit, LockForQuery,
         Acquire, PutLimit, PutQuery, SetLimit, CacheLimit, SendQuery, EndLoop, CheckLimit
<1>2. SameRecord(s) /\ \A t \in Stmt \ {s} : frame'[t] = frame[t]
  <2>1. CASE TryLock(s)
    BY <2>1, Ranges DEF TryLock, Local, IInv, TypeOK, SameRecord, Frame
  <2>2. CASE ~TryLock(s)
    BY <2>2 DEF Drain, Drained, LockArray, NeedData, WriteSet, LockForLimit, LockForQuery,
                Acquire, SameRecord, PutLimit, PutQuery, SetLimit, CacheLimit, SendQuery, EndLoop, CheckLimit
  <2> QED BY <2>1, <2>2
<1>3. \E to : GoTo(s, to) /\ (to = "return" => frame[s].row > Size(s))
  <2>1. CASE EndLoop(s)
    BY <2>1 DEF EndLoop
  <2>3. CASE Drain(s)
    <3>1. GoTo(s, "drain")
      BY <2>3 DEF Drain, GoTo, IInv, TypeOK
    <3> QED BY <3>1
  <2>2. CASE ~EndLoop(s) /\ ~Drain(s)
    <3>1. PICK to \in {"loop", "lock_array", "need_data", "write", "written", "lock_limit", "lock_query",
                       "put_limit", "put_query", "send_limit", "cache", "send_query",
                       "running"} : GoTo(s, to)
      BY <2>2 DEF Drained, LockArray, NeedData, TryLock, WriteSet, LockForLimit,
                  LockForQuery, Acquire, PutLimit, PutQuery, SetLimit, CacheLimit, SendQuery, CheckLimit
    <3> QED BY <3>1
  <2> QED BY <2>1, <2>2, <2>3
<1> QED BY <1>1, <1>2, <1>3, QuietRecord

LEMMA UntoldSteps ==
  ASSUME IInv, StatusInv, NEW s \in Stmt, PlainRound(s) \/ RefuseDataAtExec(s) \/ JoinSet(s)
  PROVE  StatusInv'
<1>1. ~BySets(s) /\ job' = job
  BY DEF PlainRound, RefuseDataAtExec, JoinSet, BySets
<1>2. RecordOf(s)'
  BY <1>1 DEF RecordOf, BySets
<1>3. \A t \in Stmt \ {s} : frame'[t] = frame[t] /\ status'[t] = status[t]
  <2>1. CASE PlainRound(s) \/ RefuseDataAtExec(s)
    BY <2>1 DEF PlainRound, RefuseDataAtExec, Local, IInv, TypeOK
  <2>2. CASE JoinSet(s)
    BY <2>2, SetStatusValue DEF JoinSet, AtSet, Continue, Local, IInv, TypeOK
  <2> QED BY <2>1, <2>2
<1>4. \E to : GoTo(s, to)
  <2>1. pc = [pc EXCEPT ![s] = pc[s]]
    BY DEF IInv, TypeOK
  <2> QED BY <2>1 DEF PlainRound, RefuseDataAtExec, JoinSet, Continue, GoTo
<1> QED BY <1>1, <1>2, <1>3, <1>4, OneRecord

LEMMA CopyTextRecord ==
  ASSUME IInv, StatusInv, NEW s \in Stmt, CopyText(s) PROVE StatusInv'
<1>1. /\ job' = job /\ GoTo(s, "limit") /\ SetStatus(s, "success")
      /\ frame[s].row <= Size(s)
  BY DEF CopyText, AtSet
<1>2. SameRecord(s) /\ \A t \in Stmt \ {s} : frame'[t] = frame[t]
  BY Ranges DEF CopyText, Local, IInv, TypeOK, SameRecord, Frame
<1>3. /\ \A t \in Stmt \ {s} : status'[t] = status[t]
      /\ \A k \in 1 .. MaxSets : k < frame[s].row => status'[s][k] = status[s][k]
  BY <1>1, Ranges, SetStatusValue
<1> QED BY <1>1, <1>2, <1>3, QuietRecord

LEMMA SkippedSetRecord ==
  ASSUME IInv, StatusInv, NEW s \in Stmt, IgnoreSet(s) \/ FailSet(s) PROVE StatusInv'
<1>1. frame[s].row <= Size(s) /\ frame[s].row <= MaxSets /\ job' = job /\ pc[s] # "return"
  BY Ranges, SharedConnectionAssumption DEF IgnoreSet, FailSet, AtSet
<1>2. CASE IgnoreSet(s)
  <2>1. /\ frame'[s].row = frame[s].row + 1 /\ frame'[s].executed = frame[s].executed
        /\ frame'[s].rc = frame[s].rc /\ frame'[s].failed = frame[s].failed
        /\ frame'[s].all_failed = frame[s].all_failed
        /\ \A t \in Stmt \ {s} : frame'[t] = frame[t]
    BY <1>2, Ranges DEF IgnoreSet, Local, IInv, TypeOK, Frame
  <2>2. GoTo(s, "loop")
    <3>1. pc = [pc EXCEPT ![s] = pc[s]] /\ pc[s] = "loop" /\ pc' = pc
      BY <1>2 DEF IInv, TypeOK, IgnoreSet
    <3> QED BY <3>1 DEF GoTo
  <2> QED BY <1>1, <1>2, <2>1, <2>2, RoundRecord DEF IgnoreSet
<1>3. CASE FailSet(s)
  <2> DEFINE h == [frame[s] EXCEPT !.row = @ + 1, !.rc = "error",
                                   !.failed = @ \/ "error" # "success"]
  <2>1. frame' = [frame EXCEPT ![s] = h] /\ GoTo(s, "loop") /\ SetStatus(s, "error")
    BY <1>3 DEF FailSet, Continue, Local
  <2>2. /\ h.row = frame[s].row + 1 /\ h.executed = frame[s].executed
        /\ h.rc = "error" /\ h.failed /\ h.all_failed = frame[s].all_failed
    BY Ranges DEF Frame
  <2> HIDE DEF h
  <2>3. frame'[s] = h /\ \A t \in Stmt \ {s} : frame'[t] = frame[t]
    BY <2>1 DEF IInv, TypeOK
  <2> QED BY <1>1, <2>1, <2>2, <2>3, RoundRecord
<1> QED BY <1>2, <1>3

LEMMA RoundDoneRecord ==
  ASSUME IInv, TextInv, StatusInv, NEW s \in Stmt,
         \/ CheckLimit(s) /\ frame[s].lost
         \/ QueryDone(s)
         \/ pc[s] \in Talking /\ Failed(s)
  PROVE  StatusInv'
<1>1. /\ pc[s] \in Sending /\ pc[s] # "return" /\ job' = job
      /\ frame[s].row <= Size(s) /\ frame[s].row \in 1 .. MaxSets
  <2>1. pc[s] \in Sending /\ pc[s] # "return" /\ job' = job
    BY DEF CheckLimit, QueryDone, Failed, Talking, Sending
  <2> QED BY <2>1, Ranges, SharedConnectionAssumption DEF IInv, Placed
<1>2. CASE QueryDone(s)
  <2> DEFINE f == [frame[s] EXCEPT !.executed = @ \cup Executed(s)]
  <2>1. BySets(s) => Executed(s) = {frame[s].row}
    <3> SUFFICES ASSUME BySets(s) PROVE Executed(s) = {frame[s].row}
      OBVIOUS
    <3>1. frame[s].query = <<<<s, frame[s].row>>>>
      BY <1>1 DEF TextInv, TextOf, Copied, BySets
    <3> QED BY <1>1, <3>1 DEF Executed, BySets
  <2>2. Executed(s) \subseteq 1 .. MaxSets
    BY <1>1 DEF Executed
  <2>3. /\ f \in Frame /\ f.row = frame[s].row /\ f.failed = frame[s].failed
        /\ f.executed = frame[s].executed \cup Executed(s)
    BY <2>2, Ranges DEF Frame
  <2>4. RoundDone(s, f, "success")
    BY <1>2 DEF QueryDone
  <2> HIDE DEF f
  <2>5. /\ GoTo(s, "loop") /\ SetStatus(s, "success")
        /\ \A t \in Stmt \ {s} : frame'[t] = frame[t]
        /\ frame'[s].row = frame[s].row + 1
        /\ frame'[s].executed = f.executed /\ frame'[s].rc = "success"
        /\ frame'[s].all_failed = FALSE
    BY <1>1, <2>3, <2>4, RoundEnd
  <2> QED BY <1>1, <2>1, <2>3, <2>5, RoundRecord
<1>3. CASE (CheckLimit(s) /\ frame[s].lost) \/ (pc[s] \in Talking /\ Failed(s))
  <2>1. PICK f \in Frame :
          /\ RoundDone(s, f, "error") /\ f.row = frame[s].row
          /\ f.executed = frame[s].executed /\ f.all_failed = frame[s].all_failed
    <3>1. CASE CheckLimit(s) /\ frame[s].lost
      BY <3>1, Ranges DEF CheckLimit
    <3>2. CASE Failed(s)
      <4> DEFINE g == [frame[s] EXCEPT !.lost = ~up]
      <4>1. /\ g \in Frame /\ g.row = frame[s].row
            /\ g.executed = frame[s].executed /\ g.all_failed = frame[s].all_failed
        BY LostFrame
      <4>2. RoundDone(s, g, "error")
        BY <3>2 DEF Failed
      <4> QED BY <4>1, <4>2
    <3> QED BY <1>3, <3>1, <3>2
  <2>2. /\ GoTo(s, "loop") /\ SetStatus(s, "error")
        /\ \A t \in Stmt \ {s} : frame'[t] = frame[t]
        /\ frame'[s].row = frame[s].row + 1
        /\ frame'[s].executed = f.executed /\ frame'[s].rc = "error"
        /\ frame'[s].failed
        /\ frame'[s].all_failed = (f.all_failed /\ "error" # "success")
    BY <1>1, <2>1, RoundEnd
  <2>3. frame'[s].all_failed = frame[s].all_failed
    <3>1. frame[s].all_failed \in BOOLEAN
      BY Ranges DEF Frame
    <3> QED BY <2>1, <2>2, <3>1
  <2> QED BY <1>1, <2>1, <2>2, <2>3, RoundRecord
<1> QED BY <1>2, <1>3

LEMMA CallRecord ==
  ASSUME IInv, StatusInv, NEW s \in Stmt, Return(s) \/ \E j \in Job : Execute(s, j)
  PROVE  StatusInv'
<1>1. \A t \in Stmt \ {s} : /\ job'[t] = job[t] /\ frame'[t] = frame[t]
                            /\ status'[t] = status[t] /\ pc'[t] = pc[t]
  BY DEF Return, Execute, GoTo, Local, IInv, TypeOK
<1>2. RecordOf(s)'
  <2>1. CASE Return(s)
    BY <2>1 DEF Return, IInv, TypeOK, NoJob, RecordOf, BySets
  <2>2. ASSUME NEW j \in Job, Execute(s, j) PROVE RecordOf(s)'
    <3>1. frame'[s] = NewFrame(j) /\ job'[s] = j /\ pc'[s] # "return"
      BY <2>2 DEF Execute, GoTo, Local, IInv, TypeOK
    <3>2. Size(s)' = Len(j.sets) /\ Len(j.sets) \in 1 .. MaxSets
      BY <3>1, SizeType DEF Size
    <3>3. frame'[s].row = 1 /\ frame'[s].executed = {} /\ frame'[s].rc = "unset"
      BY <3>1 DEF NewFrame
    <3>4. frame'[s].all_failed = (Len(j.sets) > 1)
      <4> DEFINE many == Len(j.sets) > 1
      <4>1. NewFrame(j) = [row |-> 1, length |-> 0, locked |-> FALSE, query |-> <<>>,
                           rc |-> "unset", failed |-> FALSE, all_failed |-> many,
                           lost |-> FALSE, executed |-> {}]
        BY Zenon DEF NewFrame
      <4> HIDE DEF many
      <4>2. NewFrame(j).all_failed = many
        BY <4>1
      <4> QED BY <3>1, <4>2 DEF many
    <3>5. (frame'[s].all_failed <=> Len(j.sets) > 1)
      BY <3>4
    <3>6. \A k \in 1 .. Size(s)' : k >= 1
      BY <3>2
    <3>7. Recorded(s)'
      BY <3>1, <3>2, <3>3, <3>5, <3>6 DEF Recorded
    <3> QED BY <3>7 DEF RecordOf
  <2> QED BY <2>1, <2>2
<1>3. \A t \in Stmt \ {s} : RecordOf(t)'
  BY <1>1, OtherRecord DEF StatusInv, RecordOf
<1> QED BY <1>2, <1>3 DEF StatusInv, RecordOf

LEMMA InitRecord == Init => StatusInv
BY DEF Init, StatusInv, BySets, NoJob

LEMMA NextRecord ==
  ASSUME IInv, TextInv, StatusInv, [Next]_vars PROVE StatusInv'
<1>1. ASSUME NEW s \in Stmt, Step(s) PROVE StatusInv'
  BY <1>1, QuietSteps, UntoldSteps, CopyTextRecord, SkippedSetRecord, RoundDoneRecord,
     CallRecord DEF Step, CommandFails, Talking
<1>2. ASSUME NEW s \in Stmt, \E j \in Job : Execute(s, j) PROVE StatusInv'
  BY <1>2, CallRecord
<1>4. ASSUME NEW s \in Stmt, pc[s] = "running", Failed(s) PROVE StatusInv'
  BY <1>4, RoundDoneRecord DEF Talking
<1>3. CASE \/ (\E s \in Stmt : Cancel(s)) \/ LoseConnection \/ UNCHANGED vars
           \/ UNCHANGED <<pc, job, frame, status>>
  <2>1. UNCHANGED <<pc, job, frame, status>>
    BY <1>3 DEF Cancel, LoseConnection, vars
  <2> QED BY <2>1, OtherRecord DEF StatusInv, RecordOf
<1> QED BY <1>1, <1>2, <1>3, <1>4 DEF Next, KillArrives

(* my_SQLExecute: of an array executed set by set, the status array tells  *)
(* which sets were executed, and SQL_ERROR that none was, whatever fails.  *)
THEOREM StatusesExact ==
  ASSUME "share_buffer" \notin Practices PROVE Spec => []StatusExact
<1>1. IInv /\ TextInv /\ StatusInv /\ [Next]_vars => StatusInv'
  BY NextRecord
<1>2. ASSUME IInv, StatusInv PROVE StatusExact
  <2> SUFFICES ASSUME NEW s \in Stmt, pc[s] = "return", BySets(s)
               PROVE  /\ \A k \in 1 .. Size(s) :
                           status[s][k] = "success" <=> k \in frame[s].executed
                      /\ Size(s) > 1 => ("error" \in ReturnCodes(s) <=> frame[s].executed = {})
    BY DEF StatusExact, BySets
  <2>1. Recorded(s) /\ frame[s].row > Size(s)
    BY <1>2 DEF StatusInv, Recorded
  <2>2. \A k \in 1 .. Size(s) : k < frame[s].row
    BY <1>2, <2>1, Ranges
  <2>3. frame[s].rc \in {"unset", "success", "error"}
    BY <1>2, Ranges DEF Frame
  <2>4. Size(s) > 1 => ("error" \in ReturnCodes(s) <=> frame[s].executed = {})
    <3> SUFFICES ASSUME Size(s) > 1
                 PROVE  "error" \in ReturnCodes(s) <=> frame[s].executed = {}
      OBVIOUS
    <3>1. CASE frame[s].all_failed
      <4>1. ReturnCodes(s) = {"error"}
        BY <3>1 DEF ReturnCodes
      <4> QED BY <2>1, <3>1, <4>1 DEF Recorded
    <3>2. CASE ~frame[s].all_failed /\ frame[s].failed
      <4>1. ReturnCodes(s) = {"success_with_info"}
        BY <3>2 DEF ReturnCodes
      <4> QED BY <2>1, <3>2, <4>1 DEF Recorded
    <3>3. CASE ~frame[s].all_failed /\ ~frame[s].failed
      <4>1. frame[s].rc = "success"
        BY <2>1, <2>3, <3>3 DEF Recorded
      <4>2. ReturnCodes(s) = {"success"}
        BY <3>3, <4>1 DEF ReturnCodes
      <4> QED BY <2>1, <3>3, <4>2 DEF Recorded
    <3> QED BY <3>1, <3>2, <3>3
  <2> QED BY <2>1, <2>2, <2>4 DEF Recorded
<1> QED BY <1>1, <1>2, InitRecord, Invariance, TextInvariance, PTL DEF Spec
=============================================================================
