------------------------ MODULE BatchLifecycleProofs ------------------------
(***************************************************************************)
(* For every set of batches, files, requests and invocations, with stale   *)
(* restores or without: what the purge of a batch or file may and may not  *)
(* do.  All of it is one inductive invariant, since what an invocation may *)
(* remove depends on what requests could do before and since its claim.    *)
(***************************************************************************)
EXTENDS BatchLifecycle, TLAPS

(* Batches whose purge was asked for, and is or may be dispatched.         *)
Pending == event \union (dispatching \intersect Batch)

(* A purge of f, or of its batch, is what invocation l is at.              *)
Covers(l, f) == lambda[l].on = f \/ lambda[l].on = file[f].batch

(* Some of its objects may have been removed.                              *)
LostRow(row) ==
  /\ row.stage \in {"waiting", "read", "unread"} /\ row.put \in {"done", "late"}
  /\ ~row.stored

Lost(f) == LostRow(file[f])

(* A step to row new of f sends no document, or one that is late, or one   *)
(* that no invocation has collected the objects before.                    *)
SentInTime(f, new) ==
  /\ file[f].stored => new.stored
  /\ new.stored /\ new.put # "late" =>
       \/ file[f].stored /\ file[f].put # "late"
       \/ file[f].stage \notin {"absent", "gone"} /\ ~Collected(f)

(* A batch that can neither be restored nor keep its purge from finishing. *)
Condemned(b) ==
  /\ batch[b].deleted /\ batch[b].due
  /\ purge[b] \in {"queued", "running", "failed"}
  /\ \A f \in FilesOf(b) : ~Protected(f) /\ purge[f] = "none"

(* What every reference leads to is a row that was inserted.               *)
BatchesReal ==
  \A b \in Batch : batch[b].state = "absent" => b \notin Pending /\ ~batch[b].deleted

FilesReal ==
  \A f \in File :
    /\ file[f].stage = "absent" => file[f] = NewFile /\ purge[f] = "none"
    /\ file[f].stage # "absent" => file[f].batch \in Batch
    /\ file[f].stage \in {"read", "unread"} => file[f].put \in {"done", "late"}

LambdaReal ==
  \A l \in Lambda :
    /\ lambda[l].at = "idle" <=> lambda[l].on = NoTarget
    /\ lambda[l].on \in Batch => batch[lambda[l].on].state # "absent"
    /\ lambda[l].on \in File => file[lambda[l].on].stage # "absent"
    /\ \A f \in lambda[l].keys : file[f].stage # "absent" /\ Covers(l, f)

WebReal ==
  \A r \in Request :
    /\ web[r].at \in {"uploading", "reopening", "restoring"} => web[r].on \in Batch
    /\ web[r].at = "removing" => web[r].on \in File /\ file[web[r].on].stage # "absent"
    /\ web[r].at \in {"signing", "unsigning", "merging"} =>
         web[r].on \in File /\ file[web[r].on].stage \in {"read", "removed", "gone"}

Shape == LifecycleTypeOK /\ BatchesReal /\ FilesReal /\ LambdaReal /\ WebReal

(* Nobody but an invocation that has claimed a target takes its purge on.  *)
OwnerRuns ==
  \A l \in Lambda :
    lambda[l].on \in (Batch \ overtaken) \union File /\ Exists(lambda[l].on) =>
      purge[lambda[l].on] = "running"

BatchWork ==
  \A l \in Lambda : lambda[l].on \in Batch \ overtaken =>
    Exists(lambda[l].on) /\ batch[lambda[l].on].deleted /\ batch[lambda[l].on].due

PendingOK ==
  \A b \in Batch \ overtaken : b \in Pending /\ Exists(b) => Condemned(b)

(* Objects are lost only where the purge goes on until the row is gone.    *)
LostOK ==
  \A f \in File : Lost(f) /\ Kept(f) => purge[f] # "none" \/ Condemned(file[f].batch)

BlockedIntact ==
  \A l \in Lambda : lambda[l].on \in Batch \ overtaken /\ lambda[l].at = "blocking" =>
    /\ lambda[l].on \notin Pending
    /\ \A f \in FilesOf(lambda[l].on) : ~Lost(f)

(* What was found unprotected stays so.                                    *)
CheckedUnprotected ==
  \A l \in Lambda : lambda[l].at \in {"checked", "collected", "cleared"} =>
    \A f \in File : Covers(l, f) /\ Kept(f) /\ Exists(f) => ~Protected(f)

(* Files that came after the collection have no objects but late ones.     *)
ClearedEmpty ==
  \A l \in Lambda : \A f \in File :
    Covers(l, f) /\ Kept(f) /\ Exists(f) /\ file[f].put # "late" =>
    /\ lambda[l].at = "collected" => f \in lambda[l].keys \/ ~file[f].stored
    /\ lambda[l].at = "cleared" => ~file[f].stored

Purging ==
  /\ OwnerRuns /\ BatchWork /\ PurgeExclusive /\ PendingOK /\ NoMixedPurge
  /\ LostOK /\ BlockedIntact /\ CheckedUnprotected /\ ClearedEmpty
  /\ ProtectedKept /\ ObjectsBeforeRows

LInv == Shape /\ Purging

-----------------------------------------------------------------------------
(* The rows have the fields the schema gives them.                         *)
RowsTyped ==
  /\ batch \in [Batch -> [state : {"absent", "open", "closed", "gone"},
                          deleted : BOOLEAN, due : BOOLEAN]]
  /\ file \in [File -> [batch : Batch \union {NoTarget},
                        stage : {"absent", "waiting", "gone"} \union Terminal,
                        signed : BOOLEAN, merged : BOOLEAN,
                        put : {"none", "awaited", "done", "late"}, stored : BOOLEAN]]

BatchTyped(row) ==
  row \in [state : {"absent", "open", "closed", "gone"}, deleted : BOOLEAN, due : BOOLEAN]

FileTyped(row) ==
  row \in [batch : Batch \union {NoTarget}, stage : {"absent", "waiting", "gone"} \union Terminal,
           signed : BOOLEAN, merged : BOOLEAN,
           put : {"none", "awaited", "done", "late"}, stored : BOOLEAN]

WebTyped ==
  web \in [Request -> [at : {"idle", "uploading", "removing", "reopening", "restoring",
                             "signing", "unsigning", "merging"},
                       on : Target \union {NoTarget}]]

(* The invariant holds at first, also of a legacy batch.                   *)
LEMMA LifecycleInitially == LifecycleInit => LInv
<1> SUFFICES ASSUME LifecycleInit
             PROVE  LInv
  OBVIOUS
<1>1. /\ purge = [t \in Target |-> "none"] /\ event = {} /\ dispatching = {}
      /\ overtaken = {} /\ web = [r \in Request |-> [at |-> "idle", on |-> NoTarget]]
      /\ lambda = [l \in Lambda |-> [at |-> "idle", on |-> NoTarget, keys |-> {}]]
  BY DEF LifecycleInit
<1>2. RowsTyped
  <2>1. CASE batch = [b \in Batch |-> NewBatch] /\ file = [f \in File |-> NewFile]
    BY <2>1 DEF RowsTyped, NewBatch, NewFile
  <2>2. ASSUME NEW b \in Batch, NEW f \in File,
               batch = [c \in Batch |-> IF c # b THEN NewBatch
                          ELSE [state |-> "closed", deleted |-> TRUE, due |-> FALSE]],
               file = [g \in File |-> IF g # f THEN NewFile
                          ELSE [batch |-> b, stage |-> "read", signed |-> TRUE,
                                merged |-> FALSE, put |-> "done", stored |-> TRUE]]
        PROVE  RowsTyped
    BY <2>2 DEF RowsTyped, NewBatch, NewFile, Terminal
  <2> QED
    BY <2>1, <2>2 DEF LifecycleInit, LegacyInit
<1>3. \A f \in File :
        \/ file[f] = NewFile
        \/ /\ file[f].batch \in Batch /\ file[f].stage = "read"
           /\ file[f].put = "done" /\ file[f].stored
  BY DEF LifecycleInit, LegacyInit
<1>4. /\ NewFile.stage = "absent" /\ ~NewFile.signed /\ ~NewFile.merged
      /\ NewFile.batch = NoTarget /\ ~NewFile.stored
  BY DEF NewFile
<1>5. /\ \A l \in Lambda : lambda[l].at = "idle" /\ lambda[l].on = NoTarget /\ lambda[l].keys = {}
      /\ \A r \in Request : web[r].at = "idle"
      /\ \A t \in Target : purge[t] = "none"
  BY <1>1
<1>6. LifecycleTypeOK
  BY <1>1, <1>2 DEF RowsTyped, LifecycleTypeOK
<1>7. Shape
  <2>1. \A b \in Batch : batch[b].state = "absent" => ~batch[b].deleted
    BY DEF LifecycleInit, LegacyInit, NewBatch
  <2>2. BatchesReal /\ WebReal
    BY <1>1, <1>5, <2>1 DEF BatchesReal, WebReal, Pending
  <2>3. FilesReal
    BY <1>3, <1>4, <1>5 DEF FilesReal, Target
  <2>4. LambdaReal
    BY <1>5, LifecycleAssumption DEF LambdaReal
  <2> QED
    BY <1>6, <2>2, <2>3, <2>4 DEF Shape
<1>8. NoMixedPurge /\ LostOK /\ ProtectedKept /\ ObjectsBeforeRows
  BY <1>3, <1>4, <1>5
  DEF NoMixedPurge, LostOK, ProtectedKept, ObjectsBeforeRows, Lost, LostRow, Protected, Target
<1>9. /\ OwnerRuns /\ BatchWork /\ PurgeExclusive /\ PendingOK
      /\ BlockedIntact /\ CheckedUnprotected /\ ClearedEmpty
  BY <1>1, <1>5, LifecycleAssumption
  DEF OwnerRuns, BatchWork, PurgeExclusive, PendingOK, BlockedIntact,
      CheckedUnprotected, ClearedEmpty, Pending
<1> QED
  BY <1>7, <1>8, <1>9 DEF LInv, Purging

-----------------------------------------------------------------------------
(* Steps of one kind: the state of batches changes, and nothing their      *)
(* purge depends on.                                                       *)
LEMMA BatchStepKeeps ==
  ASSUME LInv,
         UNCHANGED <<file, purge, event, dispatching, lambda, overtaken>>,
         \A b \in Batch :
           /\ batch'[b].deleted = batch[b].deleted
           /\ batch[b].due => batch'[b].due
           /\ batch[b].state = "absent" \/ (Exists(b) <=> Exists(b)')
  PROVE  Purging'
<1>1. \A b \in Batch : FilesOf(b)' = FilesOf(b)
  BY DEF FilesOf
<1>2. \A b \in Batch : Condemned(b) => Condemned(b)'
  BY <1>1 DEF Condemned, Protected
<1>3. OwnerRuns' /\ BatchWork' /\ PurgeExclusive'
  BY LifecycleAssumption
  DEF LInv, Shape, LambdaReal, Purging, OwnerRuns, BatchWork, PurgeExclusive, Exists
<1>4. PendingOK'
  BY <1>2 DEF LInv, Shape, BatchesReal, Pending, Purging, PendingOK
<1>5. NoMixedPurge' /\ ProtectedKept' /\ ObjectsBeforeRows'
  BY LifecycleAssumption
  DEF LInv, Shape, FilesReal, Purging, NoMixedPurge, ProtectedKept, ObjectsBeforeRows,
      Kept, Protected, Exists, NewFile
<1>6. LostOK'
  BY <1>2 DEF LInv, Shape, FilesReal, Purging, LostOK, Lost, LostRow, Kept
<1>7. BlockedIntact' /\ CheckedUnprotected' /\ ClearedEmpty'
  BY <1>1, LifecycleAssumption
  DEF LInv, Purging, BlockedIntact, CheckedUnprotected, ClearedEmpty, Pending, Lost, LostRow,
      Covers, Kept, Exists, Protected
<1> QED
  BY <1>3, <1>4, <1>5, <1>6, <1>7 DEF Purging

(* One file changes, as requests and the worker change it.                 *)
LEMMA FileStepKeeps ==
  ASSUME LInv, NEW f \in File, NEW new,
         UNCHANGED <<batch, purge, event, dispatching, lambda, overtaken>>,
         file' = [file EXCEPT ![f] = new],
         new.stage # "absent",
         file[f].stage = "absent" \/ new.batch = file[f].batch,
         file[f].stage = "gone" <=> new.stage = "gone",
         SentInTime(f, new),
         new.signed \/ new.merged =>
           Protected(f) \/ (Available(f) /\ (Kept(f) => new.stored)),
         LostRow(new) => Lost(f)
  PROVE  Purging'
<1>1. /\ file'[f] = new
      /\ \A g \in File \ {f} : file'[g] = file[g]
  BY DEF LInv, Shape, LifecycleTypeOK
<1>2. file[f].stage = "absent" => /\ ~Protected(f) /\ ~file[f].stored /\ purge[f] = "none"
                                  /\ ~Available(f)
  BY DEF LInv, Shape, FilesReal, NewFile, Protected, Available
<1>3. ASSUME NEW b \in Batch, NEW g \in FilesOf(b)'
      PROVE  g \in FilesOf(b) \/ (g = f /\ file[f].stage = "absent")
  BY <1>1 DEF FilesOf
<1>4. ASSUME Available(f), NEW b \in Batch, f \in FilesOf(b)
      PROVE  ~batch[b].deleted
  BY <1>4 DEF Available, FilesOf
<1>5. ASSUME NEW b \in Batch, Condemned(b)
      PROVE  Condemned(b)'
  BY <1>1, <1>2, <1>3, <1>4, <1>5 DEF Condemned, Protected
<1>7. OwnerRuns' /\ BatchWork' /\ PurgeExclusive'
  BY <1>1, LifecycleAssumption
  DEF LInv, Shape, LambdaReal, Purging, OwnerRuns, BatchWork, PurgeExclusive, Exists
<1>8. PendingOK'
  BY <1>5 DEF LInv, Pending, Purging, PendingOK, Exists
<1>9. NoMixedPurge'
  BY <1>1, <1>2, LifecycleAssumption DEF LInv, Purging, NoMixedPurge, Exists, Kept
<1>10. LostOK'
  BY <1>1, <1>2, <1>5 DEF LInv, Shape, FilesReal, Purging, LostOK, Lost, LostRow, Kept
<1>11. BlockedIntact'
  BY <1>1, <1>2, <1>3, LifecycleAssumption
  DEF LInv, Purging, BlockedIntact, Pending, Lost, LostRow, FilesOf
<1>12. CheckedUnprotected'
  <2> SUFFICES ASSUME NEW l \in Lambda, lambda[l].at \in {"checked", "collected", "cleared"},
                      NEW g \in File, Covers(l, g)', Kept(g)', Exists(g)'
               PROVE  ~Protected(g)'
    BY DEF CheckedUnprotected
  <2>1. CASE g # f
    BY <1>1, <2>1, LifecycleAssumption
    DEF LInv, Purging, CheckedUnprotected, Covers, Kept, Exists, Protected
  <2>2. CASE g = f /\ file[f].stage = "absent"
    BY <1>1, <1>2, <2>2 DEF Protected
  <2>3. CASE g = f /\ file[f].stage # "absent"
    <3>1. Covers(l, f) /\ Kept(f) /\ Exists(f)
      BY <1>1, <2>3, LifecycleAssumption DEF Covers, Kept, Exists
    <3>2. ~Protected(f)
      BY <3>1 DEF LInv, Purging, CheckedUnprotected
    <3>3. ~Available(f)
      BY <3>1, <2>3, LifecycleAssumption
      DEF Covers, Kept, Available, LInv, Shape, FilesReal, LambdaReal, Purging, OwnerRuns,
          BatchWork
    <3> QED
      BY <1>1, <2>3, <3>2, <3>3 DEF Protected
  <2> QED
    BY <2>1, <2>2, <2>3
<1>13. ClearedEmpty'
  <2> SUFFICES ASSUME NEW l \in Lambda, lambda[l].at \in {"collected", "cleared"},
                      NEW g \in File, Covers(l, g)', Kept(g)', Exists(g)', file'[g].put # "late"
               PROVE  /\ lambda[l].at = "collected" => g \in lambda[l].keys \/ ~file'[g].stored
                      /\ lambda[l].at = "cleared" => ~file'[g].stored
    BY DEF ClearedEmpty
  <2>1. CASE g # f
    BY <1>1, <2>1, LifecycleAssumption DEF LInv, Purging, ClearedEmpty, Covers, Kept, Exists
  <2>2. CASE g = f /\ file[f].stage = "absent"
    BY <1>1, <1>2, <2>2 DEF SentInTime
  <2>3. CASE g = f /\ file[f].stage # "absent"
    <3>1. Covers(l, f) /\ Kept(f) /\ Exists(f)
      BY <1>1, <2>3, LifecycleAssumption DEF Covers, Kept, Exists
    <3>2. Collected(f)
      BY <3>1 DEF Covers, Collected
    <3> QED
      BY <1>1, <2>3, <3>1, <3>2 DEF SentInTime, LInv, Purging, ClearedEmpty
  <2> QED
    BY <2>1, <2>2, <2>3
<1>14. ProtectedKept'
  BY <1>1, <1>2 DEF LInv, Purging, ProtectedKept, Protected, Kept, Available, SentInTime
<1>15. ObjectsBeforeRows'
  BY <1>1, <1>2 DEF LInv, Purging, ObjectsBeforeRows, Kept, Available, SentInTime
<1> QED
  BY <1>7, <1>8, <1>9, <1>10, <1>11, <1>12, <1>13, <1>14, <1>15 DEF Purging

-----------------------------------------------------------------------------
(* The rows and what references them keep their shape.                     *)
LEMMA ShapeUnchanged ==
  ASSUME Shape, UNCHANGED <<batch, file, purge, event, dispatching, lambda, overtaken>>,
         WebTyped',
         \A r \in Request : web'[r] = web[r] \/
           /\ web'[r].at \in {"uploading", "reopening", "restoring"} => web'[r].on \in Batch
           /\ web'[r].at = "removing" =>
                web'[r].on \in File /\ file[web'[r].on].stage # "absent"
           /\ web'[r].at \in {"signing", "unsigning", "merging"} =>
                web'[r].on \in File /\ file[web'[r].on].stage \in {"read", "removed", "gone"}
  PROVE  Shape'
<1>1. LifecycleTypeOK'
  BY DEF Shape, LifecycleTypeOK, WebTyped
<1>2. BatchesReal' /\ FilesReal' /\ LambdaReal'
  BY DEF Shape, BatchesReal, FilesReal, LambdaReal, Pending, Covers
<1>3. WebReal'
  BY DEF Shape, WebReal
<1> QED
  BY <1>1, <1>2, <1>3 DEF Shape

(* Nothing of the purge changes when a request reads, or is refused.       *)
LEMMA PurgingUnchanged ==
  ASSUME Purging, UNCHANGED <<batch, file, purge, event, dispatching, lambda, overtaken>>
  PROVE  Purging'
BY DEF Purging, OwnerRuns, BatchWork, PurgeExclusive, PendingOK, NoMixedPurge, LostOK,
       BlockedIntact, CheckedUnprotected, ClearedEmpty, ProtectedKept, ObjectsBeforeRows,
       Pending, Condemned, Lost, LostRow, Covers, Kept, Exists, FilesOf, Protected

(* Requests that read, and requests that end without a write.              *)
LEMMA ReadsKeep ==
  ASSUME LInv, NEW r \in Request,
         \/ \E b \in Batch : CheckReopen(r, b) \/ CheckRestore(r, b)
         \/ \E f \in File : CheckRemove(r, f) \/ CheckSign(r, f) \/ CheckMerge(r, f)
         \/ SignFails(r) \/ Abandon(r)
  PROVE  LInv'
<1>1. UNCHANGED <<batch, file, purge, event, dispatching, lambda, overtaken>>
  BY DEF CheckReopen, CheckRestore, CheckRemove, CheckSign, CheckMerge, SignFails, Abandon,
         rowVars
<1>2. PICK at, on : web' = [web EXCEPT ![r] = [at |-> at, on |-> on]] /\
        \/ at = "idle" /\ on = NoTarget
        \/ at \in {"reopening", "restoring"} /\ on \in Batch
        \/ at = "removing" /\ on \in File /\ file[on].stage # "absent"
        \/ at \in {"signing", "merging"} /\ on \in File /\ file[on].stage = "read"
        \/ at = "unsigning" /\ web[r].at = "signing" /\ on = web[r].on
  BY DEF CheckReopen, CheckRestore, CheckRemove, CheckSign, CheckMerge, SignFails, Abandon,
         Become, Done
<1>3. Shape'
  <2>1. WebTyped /\ WebReal
    BY DEF LInv, Shape, LifecycleTypeOK, WebTyped
  <2>2. /\ web'[r].at = at /\ web'[r].on = on /\ \A q \in Request \ {r} : web'[q] = web[q]
        /\ web'[r] = [at |-> at, on |-> on]
    BY <1>2, <2>1 DEF WebTyped
  <2>3. on \in Target \union {NoTarget}
    BY <1>2, <2>1 DEF Target, WebTyped
  <2>4. WebTyped'
    BY <1>2, <2>1, <2>3 DEF WebTyped
  <2>5. /\ at \in {"uploading", "reopening", "restoring"} => on \in Batch
        /\ at = "removing" => on \in File /\ file[on].stage # "absent"
        /\ at \in {"signing", "unsigning", "merging"} =>
             on \in File /\ file[on].stage \in {"read", "removed", "gone"}
    BY <1>2, <2>1 DEF WebReal
  <2> QED
    BY <1>1, <2>2, <2>4, <2>5, ShapeUnchanged DEF LInv
<1> QED
  BY <1>1, <1>3, PurgingUnchanged DEF LInv

-----------------------------------------------------------------------------
(* The shape is kept by a step that changes one file and ends a request.   *)
LEMMA FileStepShape ==
  ASSUME Shape, NEW f \in File, NEW new, FileTyped(new),
         UNCHANGED <<batch, purge, event, dispatching, lambda, overtaken>>,
         file' = [file EXCEPT ![f] = new],
         new.stage # "absent", new.batch \in Batch,
         file[f].stage = "absent" \/ new.batch = file[f].batch,
         file[f].stage \in {"read", "removed", "gone"} =>
           new.stage \in {"read", "removed", "gone"},
         new.stage \in {"read", "unread"} => new.put \in {"done", "late"},
         WebTyped',
         \A r \in Request : web'[r] = web[r] \/ web'[r].at = "idle"
  PROVE  Shape'
<1>1. /\ file'[f] = new
      /\ \A g \in File \ {f} : file'[g] = file[g]
  BY DEF Shape, LifecycleTypeOK
<1>2. LifecycleTypeOK'
  BY DEF Shape, LifecycleTypeOK, WebTyped, FileTyped
<1>3. BatchesReal' /\ FilesReal'
  BY <1>1 DEF Shape, BatchesReal, FilesReal, Pending
<1>4. LambdaReal'
  <2>1. \A l \in Lambda : lambda[l].keys \subseteq File
    BY DEF Shape, LifecycleTypeOK
  <2> QED
    BY <1>1, <2>1 DEF Shape, LambdaReal, Covers
<1>5. WebReal'
  BY <1>1 DEF Shape, WebReal
<1> QED
  BY <1>2, <1>3, <1>4, <1>5 DEF Shape

(* A request ends.                                                         *)
LEMMA DoneWeb ==
  ASSUME WebTyped, NEW r \in Request, Done(r)
  PROVE  /\ WebTyped'
         /\ \A q \in Request : web'[q] = web[q] \/ web'[q].at = "idle"
BY DEF Done, Become, WebTyped

(* A file that is there changes, and at most a request ends.               *)
LEMMA FileChangeKeeps ==
  ASSUME LInv, NEW f \in File, NEW new,
         UNCHANGED <<batch, purge, event, dispatching, lambda, overtaken>>,
         file' = [file EXCEPT ![f] = new],
         FileTyped(new), new.batch = file[f].batch,
         file[f].stage # "absent", new.stage # "absent",
         file[f].stage = "gone" <=> new.stage = "gone",
         file[f].stage \in {"read", "removed"} => new.stage \in {"read", "removed"},
         SentInTime(f, new),
         new.signed \/ new.merged =>
           Protected(f) \/ (Available(f) /\ (Kept(f) => new.stored)),
         LostRow(new) => Lost(f),
         new.stage \in {"read", "unread"} => new.put \in {"done", "late"},
         WebTyped', \A r \in Request : web'[r] = web[r] \/ web'[r].at = "idle"
  PROVE  LInv'
<1>1. Shape /\ new.batch \in Batch
  BY DEF LInv, Shape, FilesReal
<1>2. Shape'
  BY <1>1, FileStepShape
<1>3. Purging'
  BY FileStepKeeps
<1> QED
  BY <1>2, <1>3 DEF LInv

(* A row with one field changed.                                           *)
LEMMA RowWith ==
  ASSUME NEW row, FileTyped(row), NEW v \in BOOLEAN
  PROVE  /\ LET new == [row EXCEPT !.signed = v] IN
              /\ FileTyped(new) /\ new.signed = v /\ new.merged = row.merged
              /\ new.stage = row.stage /\ new.batch = row.batch
              /\ new.put = row.put /\ new.stored = row.stored
         /\ LET new == [row EXCEPT !.merged = v] IN
              /\ FileTyped(new) /\ new.merged = v /\ new.signed = row.signed
              /\ new.stage = row.stage /\ new.batch = row.batch
              /\ new.put = row.put /\ new.stored = row.stored
         /\ LET new == [row EXCEPT !.stored = v] IN
              /\ FileTyped(new) /\ new.merged = row.merged /\ new.signed = row.signed
              /\ new.stage = row.stage /\ new.batch = row.batch
              /\ new.put = row.put /\ new.stored = v
<1>1. row \in [batch : Batch \union {NoTarget},
               stage : {"absent", "waiting", "gone"} \union Terminal,
               signed : BOOLEAN, merged : BOOLEAN,
               put : {"none", "awaited", "done", "late"}, stored : BOOLEAN]
  BY DEF FileTyped
<1> QED
  BY <1>1 DEF FileTyped

LEMMA RowPut ==
  ASSUME NEW row, FileTyped(row), NEW w \in {"none", "awaited", "done", "late"}
  PROVE  LET new == [row EXCEPT !.put = w] IN
           /\ FileTyped(new) /\ new.merged = row.merged /\ new.signed = row.signed
           /\ new.stage = row.stage /\ new.batch = row.batch
           /\ new.put = w /\ new.stored = row.stored
BY DEF FileTyped

(* What requests and the worker do to a file.                              *)
LEMMA FilesKeep ==
  ASSUME LInv,
         \/ \E f \in File : PutObject(f) \/ UrlExpires(f) \/ ProcessFile(f) \/ RetryFile(f)
         \/ \E r \in Request :
              \/ \E f \in File : AddFile(r, f)
              \/ RemoveFile(r) \/ Sign(r) \/ PersistFailedSigning(r) \/ CreateMerge(r)
  PROVE  LInv'
<1>1. /\ WebTyped /\ WebReal /\ FilesReal /\ Shape
      /\ \A g \in File : FileTyped(file[g])
  BY DEF LInv, Shape, LifecycleTypeOK, WebTyped, FileTyped
<1>2. ASSUME NEW r \in Request, NEW f \in File, AddFile(r, f)
      PROVE  LInv'
  <2>1. CASE Exists(web[r].on)
    <3> DEFINE named == [file[f] EXCEPT !.batch = web[r].on]
               waiting == [named EXCEPT !.stage = "waiting"]
               new == [waiting EXCEPT !.put = "awaited"]
    <3>1. /\ file[f].stage = "absent" /\ file[f] = NewFile
          /\ web[r].on \in Batch
          /\ file' = [file EXCEPT ![f] = new]
          /\ UNCHANGED <<batch, purge, event, dispatching, lambda, overtaken>>
      BY <1>1, <1>2, <2>1 DEF AddFile, FilesReal, WebReal
    <3>2. /\ FileTyped(new) /\ new.stage = "waiting" /\ new.batch \in Batch
          /\ new.put = "awaited"
          /\ ~new.signed /\ ~new.merged /\ ~new.stored /\ ~file[f].stored
      <4>1. /\ FileTyped(new) /\ new.stage = "waiting" /\ new.batch = web[r].on
            /\ new.put = "awaited"
            /\ new.signed = file[f].signed /\ new.merged = file[f].merged
            /\ new.stored = file[f].stored
        BY <1>1, <3>1 DEF FileTyped, Terminal
      <4>2. ~file[f].signed /\ ~file[f].merged /\ ~file[f].stored
        BY <3>1 DEF NewFile
      <4> QED
        BY <3>1, <4>1, <4>2
    <3>3. WebTyped' /\ \A q \in Request : web'[q] = web[q] \/ web'[q].at = "idle"
      BY <1>1, <1>2, DoneWeb DEF AddFile
    <3> HIDE DEF new
    <3>4. Shape'
      BY <1>1, <3>1, <3>2, <3>3, FileStepShape
    <3>5. Purging'
      BY <3>1, <3>2, FileStepKeeps DEF SentInTime, LostRow
    <3> QED
      BY <3>4, <3>5 DEF LInv
  <2>2. CASE ~Exists(web[r].on)
    <3>1. UNCHANGED <<batch, file, purge, event, dispatching, lambda, overtaken>>
      BY <1>2, <2>2 DEF AddFile
    <3>2. WebTyped' /\ \A q \in Request : web'[q] = web[q] \/ web'[q].at = "idle"
      BY <1>1, <1>2, DoneWeb DEF AddFile
    <3> QED
      BY <3>1, <3>2, ShapeUnchanged, PurgingUnchanged DEF LInv
  <2> QED
    BY <2>1, <2>2
<1>3. WebTyped' /\ \A q \in Request : web'[q] = web[q] \/ web'[q].at = "idle"
  BY <1>1, DoneWeb
  DEF AddFile, PutObject, UrlExpires, ProcessFile, RetryFile, RemoveFile, Sign, PersistFailedSigning, CreateMerge,
      WebTyped
<1>4. /\ \A r \in Request :
           /\ web[r].at = "removing" =>
                web[r].on \in File /\ file[web[r].on].stage # "absent"
           /\ web[r].at \in {"signing", "unsigning", "merging"} =>
                web[r].on \in File /\ file[web[r].on].stage \in {"read", "removed", "gone"}
      /\ \A g \in File : Lost(g) /\ Kept(g) => ~Available(g)
  BY <1>1 DEF WebReal, LInv, Purging, LostOK, Condemned, Available
<1>5. ASSUME NEW f \in File, NEW s \in {"read", "unread"},
             file[f].stage = "waiting", file[f].put \in {"done", "late"},
             file' = [file EXCEPT ![f].stage = s],
             UNCHANGED <<batch, purge, event, dispatching, lambda, overtaken>>
      PROVE  LInv'
  <2> DEFINE new == [file[f] EXCEPT !.stage = s]
  <2>1. file' = [file EXCEPT ![f] = new]
    BY <1>1, <1>5
  <2>2. /\ FileTyped(new) /\ new.stage = s
        /\ new.put = file[f].put /\ new.stored = file[f].stored
        /\ new.batch = file[f].batch
        /\ new.signed = file[f].signed /\ new.merged = file[f].merged
    BY <1>1, <1>5 DEF FileTyped, Terminal
  <2> HIDE DEF new
  <2> QED
    BY <1>3, <1>5, <2>1, <2>2, FileChangeKeeps DEF Protected, SentInTime, Lost, LostRow
<1>5a. ASSUME NEW f \in File, NEW new, file' = [file EXCEPT ![f] = new],
              FileTyped(new), file[f].put = "awaited",
              new.stage = file[f].stage, new.batch = file[f].batch,
              new.signed = file[f].signed, new.merged = file[f].merged,
              file[f].stored => new.stored,
              new.put # "none" => new.stored,
              new.put = "done" => file[f].stage # "gone" /\ ~Collected(f),
              new.put \in {"none", "done", "late"},
              new.put = "none" => new.stored = file[f].stored,
              UNCHANGED <<batch, purge, event, dispatching, lambda, overtaken>>
       PROVE  LInv'
  <2>1. file[f].stage \notin {"absent", "read", "unread"}
    BY <1>1, <1>5a DEF FilesReal, NewFile
  <2> QED
    BY <1>3, <1>5a, <2>1, FileChangeKeeps DEF Protected, SentInTime, LostRow
<1>6. ASSUME NEW g \in File, NEW s \in {"waiting", "removed", "gone"},
             file[g].stage # "absent", s = "gone" <=> file[g].stage = "gone",
             s = "waiting" => file[g].stage = "unread",
             file' = [file EXCEPT ![g].stage = s],
             UNCHANGED <<batch, purge, event, dispatching, lambda, overtaken>>
      PROVE  LInv'
  <2> DEFINE new == [file[g] EXCEPT !.stage = s]
  <2>1. file' = [file EXCEPT ![g] = new]
    BY <1>1, <1>6
  <2>2. /\ FileTyped(new) /\ new.stage = s
        /\ new.put = file[g].put /\ new.stored = file[g].stored
        /\ new.batch = file[g].batch
        /\ new.signed = file[g].signed /\ new.merged = file[g].merged
    BY <1>1, <1>6 DEF FileTyped, Terminal
  <2> HIDE DEF new
  <2> QED
    BY <1>3, <1>6, <2>1, <2>2, FileChangeKeeps DEF Protected, SentInTime, Lost, LostRow
<1>7. ASSUME NEW g \in File, NEW new, file' = [file EXCEPT ![g] = new],
             file[g].stage \in {"read", "removed", "gone"},
             FileTyped(new), new.batch = file[g].batch, new.stage = file[g].stage,
             new.put = file[g].put, new.stored = file[g].stored,
             new.signed \/ new.merged => Protected(g) \/ Available(g),
             UNCHANGED <<batch, purge, event, dispatching, lambda, overtaken>>
      PROVE  LInv'
  <2>1. Available(g) /\ Kept(g) => file[g].stored
    BY <1>1, <1>4, <1>7 DEF Lost, LostRow, Available, FilesReal
  <2> QED
    BY <1>1, <1>3, <1>7, <2>1, FileChangeKeeps DEF Lost, LostRow, SentInTime, FilesReal
<1>8. ASSUME NEW f \in File, ProcessFile(f)
      PROVE  LInv'
  BY <1>5, <1>8 DEF ProcessFile
<1>8a. ASSUME NEW f \in File, PutObject(f)
       PROVE  LInv'
  <2> DEFINE v == IF file[f].stage = "gone" \/ Collected(f) THEN "late" ELSE "done"
             full == [file[f] EXCEPT !.stored = TRUE]
             new == [full EXCEPT !.put = v]
  <2>1. file' = [file EXCEPT ![f] = new] /\ file[f].put = "awaited"
    <3>1. /\ file' = [file EXCEPT ![f].stored = TRUE, ![f].put = v]
          /\ file[f].put = "awaited"
      BY <1>8a DEF PutObject
    <3>2. DOMAIN file = File
      BY <1>1 DEF Shape, LifecycleTypeOK
    <3> HIDE DEF v
    <3> QED
      BY <3>1, <3>2, <1>1 DEF FileTyped
  <2>2. FileTyped(full) /\ full.stored /\ full.stage = file[f].stage
        /\ full.batch = file[f].batch /\ full.signed = file[f].signed
        /\ full.merged = file[f].merged
    BY <1>1, RowWith
  <2>2a. v \in {"none", "awaited", "done", "late"}
    OBVIOUS
  <2> HIDE DEF full, v
  <2>3. FileTyped(new) /\ new.put = v /\ new.stored /\ new.stage = file[f].stage
        /\ new.batch = file[f].batch /\ new.signed = file[f].signed
        /\ new.merged = file[f].merged
    <3> HIDE DEF new
    <3>1. new = [full EXCEPT !.put = v]
      BY DEF new
    <3> QED
      BY <2>2, <2>2a, <3>1 DEF FileTyped
  <2>4. UNCHANGED <<batch, purge, event, dispatching, lambda, overtaken>>
    BY <1>8a DEF PutObject
  <2>5. v \in {"done", "late"} /\ (v = "done" => file[f].stage # "gone" /\ ~Collected(f))
    BY DEF v
  <2> HIDE DEF new
  <2> QED
    BY <1>1, <1>5a, <2>1, <2>3, <2>4, <2>5
<1>8b. ASSUME NEW f \in File, UrlExpires(f)
       PROVE  LInv'
  <2> DEFINE new == [file[f] EXCEPT !.put = "none"]
  <2>1. file' = [file EXCEPT ![f] = new] /\ file[f].put = "awaited"
    BY <1>1, <1>8b DEF UrlExpires
  <2>2. FileTyped(new) /\ new.put = "none" /\ new.stored = file[f].stored
        /\ new.stage = file[f].stage
        /\ new.batch = file[f].batch /\ new.signed = file[f].signed
        /\ new.merged = file[f].merged
    BY <1>1, RowPut
  <2>3. UNCHANGED <<batch, purge, event, dispatching, lambda, overtaken>>
    BY <1>8b DEF UrlExpires
  <2> HIDE DEF new
  <2> QED
    BY <1>1, <1>5a, <2>1, <2>2, <2>3
<1>9. ASSUME NEW f \in File, RetryFile(f)
      PROVE  LInv'
  BY <1>6, <1>9 DEF RetryFile
<1>10. ASSUME NEW r \in Request, RemoveFile(r)
       PROVE  LInv'
  <2> DEFINE g == web[r].on
             s == IF file[g].stage = "gone" THEN "gone" ELSE "removed"
  <2>1. g \in File /\ file[g].stage # "absent"
    BY <1>4, <1>10 DEF RemoveFile
  <2>2. file' = [file EXCEPT ![g].stage = s]
    BY <1>1, <1>10, <2>1 DEF RemoveFile, FileTyped
  <2>3. UNCHANGED <<batch, purge, event, dispatching, lambda, overtaken>>
    BY <1>10 DEF RemoveFile
  <2>4. s \in {"removed", "gone"} /\ (s = "gone" <=> file[g].stage = "gone")
    OBVIOUS
  <2> HIDE DEF g, s
  <2> QED
    BY <1>6, <2>1, <2>2, <2>3, <2>4
<1>11. ASSUME NEW r \in Request, Sign(r)
       PROVE  LInv'
  <2> DEFINE g == web[r].on
             new == [file[g] EXCEPT !.signed = TRUE]
  <2>1. g \in File /\ file[g].stage \in {"read", "removed", "gone"}
    BY <1>4, <1>11 DEF Sign
  <2>2. file' = [file EXCEPT ![g] = new]
    BY <1>1, <1>11, <2>1 DEF Sign
  <2>3. /\ FileTyped(new) /\ new.stage = file[g].stage
        /\ new.put = file[g].put /\ new.stored = file[g].stored
        /\ new.batch = file[g].batch
        /\ new.signed = TRUE /\ new.merged = file[g].merged
    BY <1>1, <2>1, RowWith
  <2>4. new.signed \/ new.merged => Protected(g) \/ Available(g)
    BY <1>11, <2>3 DEF Sign, Protected
  <2>5. UNCHANGED <<batch, purge, event, dispatching, lambda, overtaken>>
    BY <1>11 DEF Sign
  <2> HIDE DEF g, new
  <2> QED
    BY <1>7, <2>1, <2>2, <2>3, <2>4, <2>5
<1>12. ASSUME NEW r \in Request, PersistFailedSigning(r)
       PROVE  LInv'
  <2> DEFINE g == web[r].on
             v == IF Exists(g) THEN FALSE ELSE file[g].signed
             new == [file[g] EXCEPT !.signed = v]
  <2>1. g \in File /\ file[g].stage \in {"read", "removed", "gone"}
    BY <1>4, <1>12 DEF PersistFailedSigning
  <2>2. file' = [file EXCEPT ![g] = new]
    BY <1>1, <1>12, <2>1 DEF PersistFailedSigning
  <2>3. /\ FileTyped(new) /\ new.stage = file[g].stage
        /\ new.put = file[g].put /\ new.stored = file[g].stored
        /\ new.batch = file[g].batch
        /\ new.signed = v /\ new.merged = file[g].merged
    <3>1. FileTyped(file[g]) /\ v \in BOOLEAN
      BY <1>1, <2>1 DEF FileTyped
    <3> HIDE DEF v
    <3> QED
      BY <3>1 DEF FileTyped
  <2>4. new.signed \/ new.merged => Protected(g) \/ Available(g)
    BY <1>12, <2>3 DEF PersistFailedSigning, Protected
  <2>5. UNCHANGED <<batch, purge, event, dispatching, lambda, overtaken>>
    BY <1>12 DEF PersistFailedSigning
  <2> HIDE DEF g, new
  <2> QED
    BY <1>7, <2>1, <2>2, <2>3, <2>4, <2>5
<1>13. ASSUME NEW r \in Request, CreateMerge(r)
       PROVE  LInv'
  <2> DEFINE g == web[r].on
             new == [file[g] EXCEPT !.merged = TRUE]
  <2>1. g \in File /\ file[g].stage \in {"read", "removed", "gone"}
    BY <1>4, <1>13 DEF CreateMerge
  <2>2. file' = [file EXCEPT ![g] = new]
    BY <1>1, <1>13, <2>1 DEF CreateMerge
  <2>3. /\ FileTyped(new) /\ new.stage = file[g].stage
        /\ new.put = file[g].put /\ new.stored = file[g].stored
        /\ new.batch = file[g].batch
        /\ new.merged = TRUE /\ new.signed = file[g].signed
    BY <1>1, <2>1, RowWith
  <2>4. new.signed \/ new.merged => Protected(g) \/ Available(g)
    BY <1>13, <2>3 DEF CreateMerge, Protected
  <2>5. UNCHANGED <<batch, purge, event, dispatching, lambda, overtaken>>
    BY <1>13 DEF CreateMerge
  <2> HIDE DEF g, new
  <2> QED
    BY <1>7, <2>1, <2>2, <2>3, <2>4, <2>5
<1> QED
  BY <1>2, <1>8, <1>8a, <1>8b, <1>9, <1>10, <1>11, <1>12, <1>13

-----------------------------------------------------------------------------
(* The shape is kept by a step that changes one batch that stays, or       *)
(* inserts it.                                                             *)
LEMMA BatchStepShape ==
  ASSUME Shape, NEW b \in Batch, NEW new, BatchTyped(new),
         UNCHANGED <<file, event, lambda>>,
         batch' = [batch EXCEPT ![b] = new], new.state # "absent",
         \/ purge' = purge
         \/ \E s \in {"none", "scheduled", "queued"} : purge' = [purge EXCEPT ![b] = s],
         dispatching' \subseteq Target, overtaken' \subseteq Batch,
         dispatching' = dispatching \/ dispatching' = dispatching \union {b},
         WebTyped',
         \A r \in Request : web'[r] = web[r] \/ web'[r].at = "idle" \/
                            (web'[r].at = "uploading" /\ web'[r].on \in Batch)
  PROVE  Shape'
<1>1. /\ batch'[b] = new
      /\ \A c \in Batch \ {b} : batch'[c] = batch[c]
      /\ \A f \in File : purge'[f] = purge[f]
  BY LifecycleAssumption DEF Shape, LifecycleTypeOK, Target
<1>2. LifecycleTypeOK'
  <2>1. purge' \in [Target ->
          {"none", "scheduled", "queued", "running", "failed", "blocked"}]
    BY DEF Shape, LifecycleTypeOK
  <2>2. batch' \in [Batch -> [state : {"absent", "open", "closed", "gone"},
                              deleted : BOOLEAN, due : BOOLEAN]]
    BY DEF Shape, LifecycleTypeOK, BatchTyped
  <2> QED
    BY <2>1, <2>2 DEF Shape, LifecycleTypeOK, WebTyped
<1>3. BatchesReal' /\ FilesReal' /\ LambdaReal'
  BY <1>1 DEF Shape, BatchesReal, FilesReal, LambdaReal, Pending, Covers
<1>4. WebReal'
  BY DEF Shape, WebReal
<1> QED
  BY <1>2, <1>3, <1>4 DEF Shape

(* Opening, closing and reopening a batch, and the end of its retention.   *)
LEMMA BatchesKeep ==
  ASSUME LInv,
         \/ \E b \in Batch : CloseBatch(b) \/ RetentionEnds(b)
         \/ \E r \in Request : ReopenBatch(r) \/ \E b \in Batch : StartUpload(r, b)
  PROVE  LInv'
<1>1. /\ WebTyped /\ WebReal /\ Shape
      /\ batch \in [Batch -> [state : {"absent", "open", "closed", "gone"},
                              deleted : BOOLEAN, due : BOOLEAN]]
      /\ \A c \in Batch : BatchTyped(batch[c])
      /\ dispatching \subseteq Target /\ overtaken \subseteq Batch
  BY DEF LInv, Shape, LifecycleTypeOK, WebTyped, BatchTyped
<1>2. ASSUME NEW c \in Batch, NEW new, BatchTyped(new), batch' = [batch EXCEPT ![c] = new],
             UNCHANGED <<file, purge, event, dispatching, lambda, overtaken>>,
             new.deleted = batch[c].deleted, batch[c].due => new.due,
             new.state \notin {"absent", "gone"}, batch[c].state # "gone",
             WebTyped',
             \A q \in Request : web'[q] = web[q] \/ web'[q].at = "idle" \/
                                (web'[q].at = "uploading" /\ web'[q].on \in Batch)
      PROVE  LInv'
  <2>1. Shape'
    BY <1>1, <1>2, BatchStepShape
  <2>2. \A d \in Batch :
          /\ batch'[d].deleted = batch[d].deleted
          /\ batch[d].due => batch'[d].due
          /\ batch[d].state = "absent" \/ (Exists(d) <=> Exists(d)')
    BY <1>1, <1>2 DEF Exists
  <2>3. Purging'
    BY <1>2, <2>2, BatchStepKeeps
  <2> QED
    BY <2>1, <2>3 DEF LInv
<1>3. ASSUME UNCHANGED <<batch, file, purge, event, dispatching, lambda, overtaken>>,
             WebTyped',
             \A q \in Request : web'[q] = web[q] \/ web'[q].at = "idle" \/
                                (web'[q].at = "uploading" /\ web'[q].on \in Batch)
      PROVE  LInv'
  BY <1>3, ShapeUnchanged, PurgingUnchanged DEF LInv
<1>4. ASSUME NEW r \in Request, NEW b \in Batch, StartUpload(r, b)
      PROVE  LInv'
  <2>1. /\ WebTyped'
        /\ \A q \in Request : web'[q] = web[q] \/
                              (web'[q].at = "uploading" /\ web'[q].on \in Batch)
    BY <1>1, <1>4 DEF StartUpload, Become, WebTyped, Target
  <2>2. CASE UNCHANGED batch
    BY <1>3, <1>4, <2>1, <2>2 DEF StartUpload
  <2>3. CASE batch[b].state = "absent" /\ batch' = [batch EXCEPT ![b].state = "open"]
    <3> DEFINE new == [batch[b] EXCEPT !.state = "open"]
    <3>1. batch' = [batch EXCEPT ![b] = new]
      BY <1>1, <2>3
    <3>2. /\ BatchTyped(new) /\ new.state = "open"
          /\ new.deleted = batch[b].deleted /\ new.due = batch[b].due
      BY <1>1 DEF BatchTyped
    <3> HIDE DEF new
    <3> QED
      BY <1>2, <1>4, <2>1, <2>3, <3>1, <3>2 DEF StartUpload
  <2> QED
    BY <1>4, <2>2, <2>3 DEF StartUpload
<1>5. ASSUME NEW b \in Batch, CloseBatch(b)
      PROVE  LInv'
  <2> DEFINE new == [batch[b] EXCEPT !.state = "closed"]
  <2>1. batch' = [batch EXCEPT ![b] = new]
    BY <1>1, <1>5 DEF CloseBatch
  <2>2. /\ BatchTyped(new) /\ new.state = "closed"
        /\ new.deleted = batch[b].deleted /\ new.due = batch[b].due
    BY <1>1 DEF BatchTyped
  <2> HIDE DEF new
  <2> QED
    BY <1>1, <1>2, <1>5, <2>1, <2>2 DEF CloseBatch, WebTyped
<1>6. ASSUME NEW b \in Batch, RetentionEnds(b)
      PROVE  LInv'
  <2> DEFINE new == [batch[b] EXCEPT !.due = TRUE]
  <2>1. batch' = [batch EXCEPT ![b] = new]
    BY <1>1, <1>6 DEF RetentionEnds
  <2>2. /\ BatchTyped(new) /\ new.state = batch[b].state
        /\ new.deleted = batch[b].deleted /\ new.due
    BY <1>1 DEF BatchTyped
  <2> HIDE DEF new
  <2>3. batch[b].state # "absent"
    BY <1>1, <1>6 DEF RetentionEnds, Shape, BatchesReal
  <2> QED
    BY <1>1, <1>2, <1>6, <2>1, <2>2, <2>3 DEF RetentionEnds, WebTyped
<1>7. ASSUME NEW r \in Request, ReopenBatch(r)
      PROVE  LInv'
  <2>1. WebTyped' /\ \A q \in Request : web'[q] = web[q] \/ web'[q].at = "idle"
    BY <1>1, <1>7, DoneWeb DEF ReopenBatch
  <2>2. CASE UNCHANGED batch
    BY <1>3, <1>7, <2>1, <2>2 DEF ReopenBatch
  <2>3. CASE Exists(web[r].on) /\ batch' = [batch EXCEPT ![web[r].on].state = "open"]
    <3> DEFINE c == web[r].on
               new == [batch[c] EXCEPT !.state = "open"]
    <3>1. c \in Batch /\ batch[c].state \notin {"absent", "gone"}
      BY <1>1, <1>7, <2>3 DEF ReopenBatch, WebReal, Exists
    <3>2. batch' = [batch EXCEPT ![c] = new]
      BY <1>1, <2>3, <3>1
    <3>3. /\ BatchTyped(new) /\ new.state = "open"
          /\ new.deleted = batch[c].deleted /\ new.due = batch[c].due
      BY <1>1, <3>1 DEF BatchTyped
    <3> HIDE DEF c, new
    <3> QED
      BY <1>2, <1>7, <2>1, <3>1, <3>2, <3>3 DEF ReopenBatch
  <2> QED
    BY <1>7, <2>2, <2>3 DEF ReopenBatch
<1> QED
  BY <1>4, <1>5, <1>6, <1>7

-----------------------------------------------------------------------------
(* A batch that is deleted has no purge yet, and its files have none.      *)
LEMMA DeleteKeeps ==
  ASSUME LInv, NEW b \in Batch, DeleteBatch(b)
  PROVE  LInv'
<1> DEFINE new == [batch[b] EXCEPT !.deleted = TRUE, !.due = FALSE]
<1>1. /\ WebTyped /\ Shape /\ UNCHANGED <<file, event, dispatching, web, lambda, overtaken>>
      /\ \A c \in Batch : BatchTyped(batch[c])
      /\ batch' = [batch EXCEPT ![b] = new]
      /\ purge' = [purge EXCEPT ![b] = "scheduled"]
      /\ dispatching \subseteq Target /\ overtaken \subseteq Batch
      /\ DOMAIN batch = Batch /\ DOMAIN purge = Target
  BY DEF LInv, Shape, LifecycleTypeOK, WebTyped, BatchTyped, DeleteBatch
<1>2. /\ BatchTyped(new) /\ new.deleted
      /\ new.state = "closed" /\ batch[b].state = "closed"
  BY <1>1 DEF BatchTyped, DeleteBatch
<1> HIDE DEF new
<1>3. Shape'
  BY <1>1, <1>2, BatchStepShape DEF WebTyped
<1>4. /\ batch'[b] = new
      /\ \A c \in Batch \ {b} : batch'[c] = batch[c] /\ purge'[c] = purge[c]
      /\ \A f \in File : purge'[f] = purge[f]
      /\ \A t \in Target : Exists(t)' <=> Exists(t)
  BY <1>1, <1>2, LifecycleAssumption DEF Exists, Target
<1>5. /\ ~batch[b].deleted /\ ~Condemned(b)
      /\ \A f \in FilesOf(b) : purge[f] = "none"
  BY DEF DeleteBatch, BatchDeletable, Condemned
<1>6. b \in overtaken \/ (b \notin Pending /\ \A l \in Lambda : lambda[l].on # b)
  BY <1>5 DEF LInv, Purging, BatchWork, PendingOK, DeleteBatch, Exists
<1>7. \A c \in Batch : Condemned(c) => c # b /\ Condemned(c)'
  BY <1>1, <1>4, <1>5 DEF Condemned, FilesOf, Protected
<1>8. OwnerRuns' /\ BatchWork' /\ PurgeExclusive'
  BY <1>1, <1>4, <1>6 DEF LInv, Purging, OwnerRuns, BatchWork, PurgeExclusive, Target
<1>9. PendingOK' /\ LostOK'
  BY <1>1, <1>4, <1>5, <1>6, <1>7
  DEF LInv, Shape, FilesReal, Purging, PendingOK, LostOK, Pending, Lost, LostRow, Kept, FilesOf, Target
<1>10. NoMixedPurge' /\ ProtectedKept' /\ ObjectsBeforeRows'
  BY <1>1, <1>4, <1>5, LifecycleAssumption
  DEF LInv, Shape, FilesReal, Purging, NoMixedPurge, ProtectedKept, ObjectsBeforeRows,
      Kept, Protected, FilesOf, Target, Exists, NewFile
<1>11. BlockedIntact' /\ CheckedUnprotected' /\ ClearedEmpty'
  BY <1>1, <1>4
  DEF LInv, Purging, BlockedIntact, CheckedUnprotected, ClearedEmpty, Pending, Lost, LostRow, Covers,
      Kept, Protected, FilesOf, Target
<1> QED
  BY <1>3, <1>8, <1>9, <1>10, <1>11 DEF LInv, Purging

(* A restore finds no purge begun, or is remembered to have overtaken it.  *)
LEMMA RestoreKeeps ==
  ASSUME LInv, NEW r \in Request, RestoreBatch(r)
  PROVE  LInv'
<1> DEFINE b == web[r].on
           new == [batch[b] EXCEPT !.deleted = FALSE, !.due = FALSE]
<1>1. /\ WebTyped /\ Shape /\ UNCHANGED <<file, event, dispatching, lambda>>
      /\ \A c \in Batch : BatchTyped(batch[c])
      /\ b \in Batch
      /\ dispatching \subseteq Target /\ overtaken \subseteq Batch
      /\ DOMAIN batch = Batch /\ DOMAIN purge = Target
  BY DEF LInv, Shape, LifecycleTypeOK, WebTyped, BatchTyped, RestoreBatch, WebReal
<1>2. WebTyped' /\ \A q \in Request : web'[q] = web[q] \/ web'[q].at = "idle"
  BY <1>1, DoneWeb DEF RestoreBatch
<1>3. CASE ~Exists(b)
  BY <1>1, <1>2, <1>3, ShapeUnchanged, PurgingUnchanged DEF RestoreBatch, LInv
<1>4. CASE Exists(b)
  <2>1. /\ batch' = [batch EXCEPT ![b] = new]
        /\ purge' = [purge EXCEPT ![b] = "none"]
        /\ overtaken' = IF Restorable(b) THEN overtaken ELSE overtaken \union {b}
    BY <1>1, <1>4 DEF RestoreBatch
  <2> HIDE DEF b
  <2>2. BatchTyped(new) /\ new.state = batch[b].state /\ ~new.deleted
    BY <1>1 DEF BatchTyped
  <2> HIDE DEF new
  <2>3. Shape'
    BY <1>1, <1>2, <1>4, <2>1, <2>2, BatchStepShape DEF Exists
  <2>4. /\ batch'[b] = new
        /\ \A c \in Batch \ {b} : batch'[c] = batch[c] /\ purge'[c] = purge[c]
        /\ \A f \in File : purge'[f] = purge[f]
        /\ \A t \in Target : Exists(t)' <=> Exists(t)
        /\ overtaken \subseteq overtaken'
    BY <1>1, <2>1, <2>2, LifecycleAssumption DEF Exists, Target
  <2>5. b \in overtaken' \/
          (~Condemned(b) /\ b \notin Pending /\ \A l \in Lambda : lambda[l].on # b)
    BY <1>1, <1>4, <2>1
    DEF LInv, Purging, OwnerRuns, PendingOK, Restorable, Condemned
  <2>6. \A c \in Batch \ {b} : Condemned(c) => Condemned(c)'
    BY <1>1, <2>4 DEF Condemned, FilesOf, Protected
  <2>7. OwnerRuns' /\ BatchWork' /\ PurgeExclusive'
    BY <1>1, <2>4, <2>5 DEF LInv, Purging, OwnerRuns, BatchWork, PurgeExclusive, Target
  <2>8. PendingOK' /\ LostOK'
    BY <1>1, <2>4, <2>5, <2>6
    DEF LInv, Shape, FilesReal, Purging, PendingOK, LostOK, Pending, Lost, LostRow, Kept, Target
  <2>9. NoMixedPurge' /\ ProtectedKept' /\ ObjectsBeforeRows'
    BY <1>1, <2>2, <2>4, LifecycleAssumption
    DEF LInv, Shape, FilesReal, Purging, NoMixedPurge, ProtectedKept, ObjectsBeforeRows,
        Kept, Protected, Target, Exists, NewFile
  <2>10. BlockedIntact' /\ CheckedUnprotected' /\ ClearedEmpty'
    BY <1>1, <2>4
    DEF LInv, Purging, BlockedIntact, CheckedUnprotected, ClearedEmpty, Pending, Lost, LostRow, Covers,
        Kept, Protected, FilesOf, Target
  <2> QED
    BY <2>3, <2>7, <2>8, <2>9, <2>10 DEF LInv, Purging
<1> QED
  BY <1>3, <1>4

(* Asking for the purge of a batch, of whose files none is protected.      *)
LEMMA QueueBatchKeeps ==
  ASSUME LInv, NEW b \in Batch, QueueBatchPurge(b)
  PROVE  LInv'
<1> DEFINE new == [batch[b] EXCEPT !.due = TRUE]
<1>1. /\ WebTyped /\ Shape /\ UNCHANGED <<file, event, web, lambda, overtaken>>
      /\ \A c \in Batch : BatchTyped(batch[c])
      /\ batch' = [batch EXCEPT ![b] = new]
      /\ purge' = [purge EXCEPT ![b] = "queued"]
      /\ dispatching' = dispatching \union {b} /\ Exists(b)
      /\ dispatching \subseteq Target /\ overtaken \subseteq Batch
      /\ DOMAIN batch = Batch /\ DOMAIN purge = Target
  BY DEF LInv, Shape, LifecycleTypeOK, WebTyped, BatchTyped, QueueBatchPurge
<1>2. /\ BatchTyped(new) /\ new.state = batch[b].state
      /\ new.due /\ new.deleted = batch[b].deleted
  BY <1>1 DEF BatchTyped
<1> HIDE DEF new
<1>3. Shape'
  BY <1>1, <1>2, BatchStepShape DEF WebTyped, Exists, Target
<1>4. /\ batch'[b] = new /\ purge'[b] = "queued"
      /\ \A c \in Batch \ {b} : batch'[c] = batch[c] /\ purge'[c] = purge[c]
      /\ \A f \in File : purge'[f] = purge[f]
      /\ \A t \in Target : Exists(t)' <=> Exists(t)
  BY <1>1, <1>2, LifecycleAssumption DEF Exists, Target
<1>5. /\ batch[b].deleted /\ purge[b] # "running"
      /\ \A f \in FilesOf(b) : purge[f] = "none" /\ ~Protected(f)
  BY DEF QueueBatchPurge, BatchDeletable
<1>6. b \in overtaken \/ \A l \in Lambda : lambda[l].on # b
  BY <1>1, <1>5 DEF LInv, Purging, OwnerRuns
<1>7. \A c \in Batch : c = b \/ Condemned(c) => Condemned(c)'
  <2>1. \A c \in Batch : FilesOf(c)' = FilesOf(c) /\ FilesOf(c) \subseteq File
    BY <1>1 DEF FilesOf
  <2>2. \A f \in File : Protected(f)' = Protected(f)
    BY <1>1 DEF Protected
  <2>3. Condemned(b)'
    BY <1>2, <1>4, <1>5, <2>1, <2>2 DEF Condemned
  <2>4. \A c \in Batch \ {b} : Condemned(c) => Condemned(c)'
    BY <1>4, <2>1, <2>2 DEF Condemned
  <2> QED
    BY <2>3, <2>4
<1>8. OwnerRuns' /\ BatchWork' /\ PurgeExclusive'
  BY <1>1, <1>2, <1>4, <1>6 DEF LInv, Purging, OwnerRuns, BatchWork, PurgeExclusive, Target
<1>9. PendingOK' /\ LostOK'
  BY <1>1, <1>4, <1>7
  DEF LInv, Shape, FilesReal, Purging, PendingOK, LostOK, Pending, Lost, LostRow, Kept, Target
<1>10. NoMixedPurge' /\ ProtectedKept' /\ ObjectsBeforeRows'
  BY <1>1, <1>2, <1>4, LifecycleAssumption
  DEF LInv, Shape, FilesReal, Purging, NoMixedPurge, ProtectedKept, ObjectsBeforeRows,
      Kept, Protected, Target, Exists, NewFile
<1>11. BlockedIntact' /\ CheckedUnprotected' /\ ClearedEmpty'
  BY <1>1, <1>4, <1>6
  DEF LInv, Purging, BlockedIntact, CheckedUnprotected, ClearedEmpty, Pending, Lost, LostRow, Covers,
      Kept, Protected, FilesOf, Target
<1> QED
  BY <1>3, <1>8, <1>9, <1>10, <1>11 DEF LInv, Purging

-----------------------------------------------------------------------------
(* Queueing the purge of a file, dispatching, and the end of a dispatch.   *)
LEMMA DispatchKeeps ==
  ASSUME LInv,
         \/ \E f \in File : QueueUploadPurge(f)
         \/ \E t \in Target : Dispatch(t) \/ MarkDispatchFailed(t)
  PROVE  LInv'
<1>1. /\ Shape /\ UNCHANGED <<batch, file, web, lambda, overtaken>>
      /\ purge \in [Target -> {"none", "scheduled", "queued", "running", "failed", "blocked"}]
      /\ event \subseteq Batch /\ dispatching \subseteq Target
  BY DEF LInv, Shape, LifecycleTypeOK, QueueUploadPurge, Dispatch, MarkDispatchFailed, rowVars
<1>2. /\ event' \subseteq Batch /\ dispatching' \subseteq Target /\ Pending' \subseteq Pending
      /\ purge' \in [Target -> {"none", "scheduled", "queued", "running", "failed", "blocked"}]
      /\ \A u \in Target :
           \/ purge'[u] = purge[u]
           \/ purge[u] = "queued" /\ purge'[u] = "failed"
           \/ /\ u \in File /\ Exists(u) /\ purge[u] # "running" /\ purge'[u] = "queued"
              /\ ~batch[file[u].batch].deleted
  <2>1. ASSUME NEW f \in File, QueueUploadPurge(f)
        PROVE  <1>2
    <3>1. /\ purge' = [purge EXCEPT ![f] = "queued"]
          /\ dispatching' = dispatching \union {f} /\ event' = event
          /\ Exists(f) /\ purge[f] # "running" /\ ~batch[file[f].batch].deleted
      BY <2>1 DEF QueueUploadPurge, FileDeletable
    <3>2. f \in Target /\ f \notin Batch
      BY LifecycleAssumption DEF Target
    <3> QED
      BY <1>1, <3>1, <3>2 DEF Pending
  <2>2. ASSUME NEW t \in Target, Dispatch(t)
        PROVE  <1>2
    BY <1>1, <2>2 DEF Dispatch, Pending, rowVars
  <2>3. ASSUME NEW t \in Target, MarkDispatchFailed(t)
        PROVE  <1>2
    BY <1>1, <2>3 DEF MarkDispatchFailed, Pending
  <2> QED
    BY <2>1, <2>2, <2>3
<1>3. /\ \A u \in Target : Exists(u)' <=> Exists(u)
      /\ \A c \in Batch : FilesOf(c)' = FilesOf(c)
      /\ \A f \in File : (Protected(f)' <=> Protected(f)) /\ (Kept(f)' <=> Kept(f))
                         /\ (Lost(f)' <=> Lost(f))
      /\ \A l \in Lambda, f \in File : Covers(l, f)' <=> Covers(l, f)
  BY <1>1 DEF Exists, FilesOf, Protected, Kept, Lost, LostRow, Covers
<1>4. Shape'
  <2>1. LifecycleTypeOK'
    BY <1>1, <1>2 DEF Shape, LifecycleTypeOK
  <2>2. FilesReal'
    BY <1>1, <1>2, LifecycleAssumption DEF Shape, FilesReal, Target, Exists
  <2>3. BatchesReal' /\ LambdaReal' /\ WebReal'
    BY <1>1, <1>2 DEF Shape, BatchesReal, LambdaReal, WebReal, Covers
  <2> QED
    BY <2>1, <2>2, <2>3 DEF Shape
<1>5. ASSUME NEW c \in Batch, Condemned(c)
      PROVE  Condemned(c)'
  BY <1>1, <1>2, <1>3, <1>5, LifecycleAssumption DEF Condemned, FilesOf, Target
<1>6. OwnerRuns' /\ BatchWork' /\ PurgeExclusive'
  BY <1>1, <1>2, <1>3 DEF LInv, Purging, OwnerRuns, BatchWork, PurgeExclusive, Target
<1>7. PendingOK' /\ LostOK'
  BY <1>1, <1>2, <1>3, <1>5
  DEF Shape, FilesReal, LInv, Purging, PendingOK, LostOK, Target, Lost, LostRow
<1>8. NoMixedPurge' /\ ProtectedKept' /\ ObjectsBeforeRows'
  BY <1>1, <1>2, <1>3 DEF LInv, Purging, NoMixedPurge, ProtectedKept, ObjectsBeforeRows, Target
<1>9. BlockedIntact'
  BY <1>1, <1>2 DEF LInv, Purging, BlockedIntact, Lost, LostRow, FilesOf
<1>10. CheckedUnprotected' /\ ClearedEmpty'
  BY <1>1
  DEF LInv, Purging, CheckedUnprotected, ClearedEmpty, Covers, Kept, Exists, Protected
<1> QED
  BY <1>4, <1>6, <1>7, <1>8, <1>9, <1>10 DEF LInv, Purging

-----------------------------------------------------------------------------
(* A record of an invocation.                                              *)
LambdaTyped(row) ==
  row \in [at : {"idle", "claimed", "checked", "blocking", "collected", "cleared", "failing"},
           on : Target \union {NoTarget}, keys : SUBSET File]

(* An invocation goes on without a write, or stops.                        *)
LEMMA LambdaStepKeeps ==
  ASSUME LInv, NEW l \in Lambda, NEW new, LambdaTyped(new),
         UNCHANGED <<batch, file, purge, event, dispatching, web, overtaken>>,
         lambda' = [lambda EXCEPT ![l] = new],
         \/ new.at = "idle" /\ new.on = NoTarget /\ new.keys = {}
         \/ /\ new.on = lambda[l].on /\ lambda[l].at # "idle"
            /\ new.at \notin {"idle", "cleared"}
            /\ \A f \in new.keys : file[f].stage # "absent" /\ Covers(l, f)
            /\ new.at = "blocking" /\ lambda[l].on \in Batch \ overtaken =>
                 lambda[l].on \notin Pending /\ \A f \in FilesOf(lambda[l].on) : ~Lost(f)
            /\ \A f \in File : Covers(l, f) /\ Kept(f) /\ Exists(f) =>
                 /\ new.at \in {"checked", "collected"} => ~Protected(f)
                 /\ new.at = "collected" => f \in new.keys
  PROVE  LInv'
<1>1. /\ lambda'[l] = new
      /\ \A m \in Lambda \ {l} : lambda'[m] = lambda[m]
      /\ lambda' \in [Lambda ->
           [at : {"idle", "claimed", "checked", "blocking", "collected", "cleared", "failing"},
            on : Target \union {NoTarget}, keys : SUBSET File]]
  BY DEF LInv, Shape, LifecycleTypeOK, LambdaTyped
<1>2. \A m \in Lambda : lambda'[m].on = lambda[m].on \/ (m = l /\ lambda'[m].on = NoTarget)
  BY <1>1
<1>3. Shape'
  <2>1. LifecycleTypeOK' /\ BatchesReal' /\ FilesReal' /\ WebReal'
    BY <1>1 DEF LInv, Shape, LifecycleTypeOK, BatchesReal, FilesReal, WebReal, Pending
  <2>2. LambdaReal'
    BY <1>1, LifecycleAssumption DEF LInv, Shape, LambdaReal, Covers
  <2> QED
    BY <2>1, <2>2 DEF Shape
<1>4. OwnerRuns' /\ BatchWork' /\ PurgeExclusive'
  BY <1>2, LifecycleAssumption DEF LInv, Purging, OwnerRuns, BatchWork, PurgeExclusive, Exists
<1>5. /\ PendingOK' /\ NoMixedPurge' /\ LostOK' /\ ProtectedKept' /\ ObjectsBeforeRows'
  BY DEF LInv, Purging, PendingOK, NoMixedPurge, LostOK, ProtectedKept, ObjectsBeforeRows,
         Pending, Condemned, Lost, LostRow, Kept, Exists, FilesOf, Protected
<1>6. BlockedIntact'
  BY <1>1, LifecycleAssumption DEF LInv, Purging, BlockedIntact, Pending, Lost, LostRow, FilesOf
<1>7. CheckedUnprotected'
  <2>1. ASSUME NEW m \in Lambda, NEW f \in File
        PROVE  /\ Kept(f)' = Kept(f) /\ Exists(f)' = Exists(f) /\ Protected(f)' = Protected(f)
    BY DEF Kept, Exists, Protected
  <2>2. \A m \in Lambda, f \in File : lambda'[m].on = lambda[m].on => Covers(m, f)' = Covers(m, f)
    BY DEF Covers
  <2> QED
    BY <1>1, <2>1, <2>2 DEF LInv, Purging, CheckedUnprotected
<1>8. ClearedEmpty'
  <2>1. ASSUME NEW m \in Lambda, NEW f \in File
        PROVE  /\ Kept(f)' = Kept(f) /\ Exists(f)' = Exists(f)
    BY DEF Kept, Exists
  <2>2. \A m \in Lambda, f \in File : lambda'[m].on = lambda[m].on => Covers(m, f)' = Covers(m, f)
    BY DEF Covers
  <2> QED
    BY <1>1, <2>1, <2>2 DEF LInv, Purging, ClearedEmpty
<1> QED
  BY <1>3, <1>4, <1>5, <1>6, <1>7, <1>8 DEF LInv, Purging

(* What invocation l covers is being purged, with its batch or alone.      *)
LEMMA CoveredFacts ==
  ASSUME LInv, NEW l \in Lambda, lambda[l].at # "idle"
  PROVE  /\ lambda[l].on \in Target
         /\ \A f \in File : lambda[l].on = f /\ Exists(f) => purge[f] = "running"
         /\ \A f \in File : Exists(f) => f \in FilesOf(file[f].batch) /\ file[f].batch \in Batch
         /\ \A b \in Batch \ overtaken : \A f \in FilesOf(b) :
              lambda[l].on = b => /\ Exists(f) /\ Kept(f) /\ Covers(l, f) /\ purge[f] = "none"
                                  /\ Exists(b) /\ batch[b].deleted /\ batch[b].due
                                  /\ purge[b] = "running"
<1>1. lambda[l].on \in Target
  BY LifecycleAssumption DEF LInv, Shape, LifecycleTypeOK, LambdaReal
<1>2. \A f \in File : lambda[l].on = f /\ Exists(f) => purge[f] = "running"
  BY DEF LInv, Purging, OwnerRuns
<1>3. \A f \in File : Exists(f) => f \in FilesOf(file[f].batch) /\ file[f].batch \in Batch
  BY LifecycleAssumption DEF LInv, Shape, FilesReal, FilesOf, Exists
<1>4. ASSUME NEW b \in Batch \ overtaken, NEW f \in FilesOf(b), lambda[l].on = b
      PROVE  /\ Exists(f) /\ Kept(f) /\ Covers(l, f) /\ purge[f] = "none"
             /\ Exists(b) /\ batch[b].deleted /\ batch[b].due /\ purge[b] = "running"
  <2>1. f \in File /\ file[f].batch = b /\ file[f].stage # "gone"
    BY DEF FilesOf
  <2>2. Exists(f)
    BY <2>1, LifecycleAssumption DEF Exists, LInv, Shape, FilesReal, NewFile
  <2>3. Kept(f) /\ Covers(l, f)
    BY <1>4, <2>1 DEF Kept, Covers
  <2>4. Exists(b) /\ batch[b].deleted /\ batch[b].due
    BY <1>4 DEF LInv, Purging, BatchWork
  <2>5. purge[b] = "running"
    BY <1>4, <2>4 DEF LInv, Purging, OwnerRuns
  <2>6. purge[f] = "none"
    BY <2>1, <2>2, <2>3, <2>4 DEF LInv, Purging, NoMixedPurge
  <2> QED
    BY <2>2, <2>3, <2>4, <2>5, <2>6
<1> QED
  BY <1>1, <1>2, <1>3, <1>4

-----------------------------------------------------------------------------
(* Looking at what protects the target, and collecting its objects.        *)
LEMMA CheckAndCollectKeep ==
  ASSUME LInv, NEW l \in Lambda, CheckProtection(l) \/ Collect(l)
  PROVE  LInv'
<1>1. /\ lambda \in [Lambda ->
           [at : {"idle", "claimed", "checked", "blocking", "collected", "cleared", "failing"},
            on : Target \union {NoTarget}, keys : SUBSET File]]
      /\ UNCHANGED <<batch, file, purge, event, dispatching, web, overtaken>>
      /\ \A f \in lambda[l].keys : file[f].stage # "absent" /\ Covers(l, f)
      /\ lambda[l].at # "idle"
  BY DEF LInv, Shape, LifecycleTypeOK, LambdaReal, CheckProtection, Collect, rowVars
<1>2. /\ lambda[l].on \in Target
      /\ \A f \in File : Exists(f) => f \in FilesOf(file[f].batch) /\ file[f].batch \in Batch
  BY <1>1, CoveredFacts
<1>3. CASE CheckProtection(l)
  <2> DEFINE t == lambda[l].on
             new == [lambda[l] EXCEPT !.at = IF PurgeProtected(t) THEN "blocking" ELSE "checked"]
  <2>1. /\ lambda' = [lambda EXCEPT ![l] = new]
        /\ LambdaTyped(new) /\ new.on = lambda[l].on /\ new.keys = lambda[l].keys
        /\ new.at = IF PurgeProtected(t) THEN "blocking" ELSE "checked"
    BY <1>1, <1>3 DEF CheckProtection, Advance, LambdaTyped
  <2> HIDE DEF new
  <2>2. ASSUME t \in Batch \ overtaken, PurgeProtected(t)
        PROVE  t \notin Pending /\ \A f \in FilesOf(t) : ~Lost(f)
    <3>1. Exists(t) /\ batch[t].deleted
      BY <2>2 DEF LInv, Purging, BatchWork
    <3>2. ~Condemned(t)
      BY <2>2 DEF PurgeProtected, Condemned
    <3>3. t \notin Pending
      BY <2>2, <3>1, <3>2 DEF LInv, Purging, PendingOK
    <3>4. ASSUME NEW f \in FilesOf(t), Lost(f)
          PROVE  FALSE
      <4>1. f \in File /\ file[f].batch = t
        BY DEF FilesOf
      <4>2. Kept(f) /\ purge[f] = "none"
        BY <1>1, <2>2, CoveredFacts
      <4> QED
        BY <3>2, <3>4, <4>1, <4>2 DEF LInv, Purging, LostOK
    <3> QED
      BY <3>3, <3>4
  <2>3. ASSUME ~PurgeProtected(t), NEW f \in File, Covers(l, f), Exists(f)
        PROVE  ~Protected(f)
    <3>1. CASE t = f
      BY <2>3, <3>1, LifecycleAssumption DEF PurgeProtected
    <3>2. CASE t = file[f].batch
      BY <1>2, <2>3, <3>2 DEF PurgeProtected
    <3> QED
      BY <2>3, <3>1, <3>2 DEF Covers
  <2> QED
    BY <1>1, <2>1, <2>2, <2>3, LambdaStepKeeps
<1>4. CASE Collect(l)
  <2> DEFINE t == lambda[l].on
             keys == IF t \in Batch THEN FilesOf(t) ELSE {t}
             new == [lambda[l] EXCEPT !.at = "collected", !.keys = keys]
  <2>1. lambda' = [lambda EXCEPT ![l] = new] /\ lambda[l].at = "checked"
    BY <1>1, <1>4 DEF Collect
  <2>2. keys \subseteq File
    BY <1>2 DEF FilesOf, Target
  <2>3. \A f \in keys : file[f].stage # "absent" /\ Covers(l, f)
    BY <1>2, LifecycleAssumption DEF FilesOf, Covers, LInv, Shape, LambdaReal, FilesReal,
       NewFile, Target
  <2>4. \A f \in File : Covers(l, f) /\ Exists(f) => f \in keys
    BY <1>2, LifecycleAssumption DEF Covers
  <2> HIDE DEF keys
  <2>5. LambdaTyped(new) /\ new.on = lambda[l].on /\ new.keys = keys /\ new.at = "collected"
    BY <1>1, <2>2 DEF LambdaTyped
  <2> HIDE DEF new
  <2>6. \A f \in File : Covers(l, f) /\ Kept(f) /\ Exists(f) => ~Protected(f)
    BY <2>1 DEF LInv, Purging, CheckedUnprotected
  <2> QED
    BY <1>1, <2>1, <2>3, <2>4, <2>5, <2>6, LambdaStepKeeps
<1> QED
  BY <1>3, <1>4

(* A purge that fails, and an invocation that stops.                       *)
LEMMA FailAndStopKeep ==
  ASSUME LInv, NEW l \in Lambda, PurgeFails(l) \/ LambdaStops(l)
  PROVE  LInv'
<1>1. /\ lambda \in [Lambda ->
           [at : {"idle", "claimed", "checked", "blocking", "collected", "cleared", "failing"},
            on : Target \union {NoTarget}, keys : SUBSET File]]
      /\ UNCHANGED <<batch, file, purge, event, dispatching, web, overtaken>>
      /\ \A f \in lambda[l].keys : file[f].stage # "absent" /\ Covers(l, f)
      /\ lambda[l].at # "idle"
  BY DEF LInv, Shape, LifecycleTypeOK, LambdaReal, PurgeFails, LambdaStops, rowVars
<1>2. CASE PurgeFails(l)
  <2> DEFINE new == [lambda[l] EXCEPT !.at = "failing"]
  <2>1. /\ lambda' = [lambda EXCEPT ![l] = new]
        /\ LambdaTyped(new) /\ new.on = lambda[l].on /\ new.keys = lambda[l].keys
        /\ new.at = "failing"
    BY <1>1, <1>2 DEF PurgeFails, Advance, LambdaTyped
  <2> HIDE DEF new
  <2> QED
    BY <1>1, <2>1, LambdaStepKeeps
<1>3. CASE LambdaStops(l)
  <2> DEFINE new == [at |-> "idle", on |-> NoTarget, keys |-> {}]
  <2>1. /\ lambda' = [lambda EXCEPT ![l] = new]
        /\ LambdaTyped(new) /\ new.on = NoTarget /\ new.keys = {} /\ new.at = "idle"
    BY <1>1, <1>3 DEF LambdaStops, Finish, LambdaTyped
  <2> HIDE DEF new
  <2> QED
    BY <1>1, <2>1, LambdaStepKeeps
<1> QED
  BY <1>2, <1>3

-----------------------------------------------------------------------------
(* A claim: no other invocation is at the target, which is due.            *)
LEMMA ClaimKeeps ==
  ASSUME LInv, NEW l \in Lambda, NEW t \in Target, ClaimPurge(l, t)
  PROVE  LInv'
<1>1. /\ Shape /\ UNCHANGED <<batch, file, event, dispatching, web, overtaken>>
      /\ purge' = [purge EXCEPT ![t] = "running"]
      /\ lambda' = [lambda EXCEPT ![l] = [at |-> "claimed", on |-> t, keys |-> {}]]
      /\ DOMAIN purge = Target /\ DOMAIN lambda = Lambda
      /\ Exists(t) /\ lambda[l].at = "idle" /\ overtaken \subseteq Batch
  BY DEF LInv, Shape, LifecycleTypeOK, ClaimPurge
<1>2. /\ purge'[t] = "running"
      /\ \A u \in Target \ {t} : purge'[u] = purge[u]
      /\ lambda'[l].at = "claimed" /\ lambda'[l].on = t /\ lambda'[l].keys = {}
      /\ \A m \in Lambda \ {l} : lambda'[m] = lambda[m]
  BY <1>1
<1>3. /\ \A u \in Target : Exists(u)' = Exists(u)
      /\ \A c \in Batch : FilesOf(c)' = FilesOf(c) /\ FilesOf(c) \subseteq File
      /\ \A f \in File : Protected(f)' = Protected(f) /\ Kept(f)' = Kept(f) /\ Lost(f)' = Lost(f)
      /\ \A m \in Lambda \ {l}, f \in File : Covers(m, f)' = Covers(m, f)
      /\ Pending' = Pending
  BY <1>1, <1>2 DEF Exists, FilesOf, Protected, Kept, Lost, LostRow, Covers, Pending
<1>4. \A m \in Lambda : lambda[m].on = t => t \in overtaken
  BY <1>1, LifecycleAssumption
  DEF LInv, Purging, OwnerRuns, ClaimPurge, Claimable, Target
<1>5. t \in Batch \ overtaken => batch[t].deleted /\ batch[t].due
  BY <1>1 DEF LInv, Purging, PendingOK, Pending, Condemned, ClaimPurge, Due
<1>6. t \in File => purge[t] # "none"
  BY LifecycleAssumption DEF ClaimPurge, Claimable
<1>7. t \in File /\ Kept(t) => ~batch[file[t].batch].deleted
  BY <1>1, <1>6 DEF LInv, Purging, NoMixedPurge
<1>8. ASSUME NEW c \in Batch, Condemned(c)
      PROVE  Condemned(c)'
  BY <1>1, <1>2, <1>3, <1>6, <1>8 DEF Condemned, Target
<1>9. Shape'
  <2>1. LifecycleTypeOK' /\ BatchesReal' /\ WebReal'
    BY <1>1, <1>3 DEF Shape, LifecycleTypeOK, BatchesReal, WebReal
  <2>2. FilesReal'
    BY <1>1, <1>2, LifecycleAssumption DEF Shape, FilesReal, Target, Exists
  <2>3. /\ t # NoTarget
        /\ t \in Batch => batch[t].state # "absent"
        /\ t \in File => file[t].stage # "absent"
    BY <1>1, LifecycleAssumption DEF Exists, Target
  <2>4. LambdaReal'
    BY <1>1, <1>2, <2>3 DEF Shape, LambdaReal, Covers
  <2> QED
    BY <2>1, <2>2, <2>4 DEF Shape
<1>10. OwnerRuns' /\ BatchWork'
  BY <1>1, <1>2, <1>3, <1>5 DEF LInv, Purging, OwnerRuns, BatchWork, Target
<1>11. PurgeExclusive'
  BY <1>1, <1>2, <1>4 DEF LInv, Purging, PurgeExclusive
<1>12. PendingOK' /\ LostOK'
  BY <1>1, <1>2, <1>3, <1>8
  DEF Shape, FilesReal, LInv, Purging, PendingOK, LostOK, Target, Lost, LostRow
<1>13. NoMixedPurge' /\ ProtectedKept' /\ ObjectsBeforeRows'
  BY <1>1, <1>2, <1>3, <1>7
  DEF LInv, Purging, NoMixedPurge, ProtectedKept, ObjectsBeforeRows, Target
<1>14. BlockedIntact'
  BY <1>1, <1>2, <1>3 DEF LInv, Purging, BlockedIntact
<1>15. CheckedUnprotected' /\ ClearedEmpty'
  BY <1>1, <1>2, <1>3 DEF LInv, Purging, CheckedUnprotected, ClearedEmpty, Target
<1> QED
  BY <1>9, <1>10, <1>11, <1>12, <1>13, <1>14, <1>15 DEF LInv, Purging

-----------------------------------------------------------------------------
(* Objects that were collected are removed: all of them, or some.          *)
LEMMA UnstoreKeeps ==
  ASSUME LInv, NEW l \in Lambda, NEW S \in SUBSET lambda[l].keys,
         NEW at \in {"cleared", "failing"},
         lambda[l].at = "collected", Unstore(S), Advance(l, at),
         at = "cleared" => S = lambda[l].keys,
         UNCHANGED <<batch, purge, event, dispatching, web, overtaken>>
  PROVE  LInv'
<1>1. /\ Shape /\ S \subseteq File
      /\ lambda' = [lambda EXCEPT ![l].at = at]
      /\ lambda \in [Lambda ->
           [at : {"idle", "claimed", "checked", "blocking", "collected", "cleared", "failing"},
            on : Target \union {NoTarget}, keys : SUBSET File]]
      /\ \A f \in S : Covers(l, f) /\ file[f].stage # "absent"
  BY DEF LInv, Shape, LifecycleTypeOK, LambdaReal, Advance
<1>2. \A f \in File : FileTyped(file[f])
  BY DEF LInv, Shape, LifecycleTypeOK, FileTyped
<1>3. \A f \in File :
        /\ file'[f].batch = file[f].batch /\ file'[f].stage = file[f].stage
        /\ file'[f].signed = file[f].signed /\ file'[f].merged = file[f].merged
        /\ file'[f].put = file[f].put
        /\ file'[f].stored = (file[f].stored /\ f \notin S)
        /\ FileTyped(file'[f])
        /\ f \notin S => file'[f] = file[f]
  BY <1>2 DEF Unstore, FileTyped
<1>4. /\ lambda'[l].at = at /\ lambda'[l].on = lambda[l].on /\ lambda'[l].keys = lambda[l].keys
      /\ \A m \in Lambda \ {l} : lambda'[m] = lambda[m]
      /\ \A m \in Lambda : lambda'[m].on = lambda[m].on /\ lambda'[m].keys = lambda[m].keys
  BY <1>1
<1>5. /\ \A u \in Target : Exists(u)' = Exists(u)
      /\ \A c \in Batch : FilesOf(c)' = FilesOf(c) /\ FilesOf(c) \subseteq File
      /\ \A f \in File : Protected(f)' = Protected(f) /\ Kept(f)' = Kept(f)
      /\ \A m \in Lambda, f \in File : Covers(m, f)' = Covers(m, f)
      /\ Pending' = Pending
  BY <1>3, <1>4, LifecycleAssumption DEF Exists, FilesOf, Protected, Kept, Covers, Pending, Target
<1>6. \A f \in File : Lost(f)' => Lost(f) \/ (f \in S /\ Exists(f))
  BY <1>1, <1>3, LifecycleAssumption DEF Lost, LostRow, Exists, Terminal
<1>7. ASSUME NEW f \in S, Kept(f), Exists(f)
      PROVE  /\ ~Protected(f)
             /\ \/ lambda[l].on = f /\ purge[f] = "running"
                \/ lambda[l].on = file[f].batch /\ Condemned(file[f].batch)
  <2>1. ~Protected(f)
    BY <1>1, <1>7 DEF LInv, Purging, CheckedUnprotected
  <2>2. CASE lambda[l].on = f
    BY <1>1, <1>7, <2>1, <2>2, CoveredFacts
  <2>3. CASE lambda[l].on = file[f].batch
    <3> DEFINE b == file[f].batch
    <3>1. b \in Batch \ overtaken /\ f \in FilesOf(b)
      BY <1>1, <1>7, CoveredFacts DEF Kept
    <3>2. /\ batch[b].deleted /\ batch[b].due /\ purge[b] = "running"
          /\ \A g \in FilesOf(b) : Exists(g) /\ Kept(g) /\ Covers(l, g) /\ purge[g] = "none"
      BY <2>3, <3>1, CoveredFacts
    <3>3. \A g \in FilesOf(b) : ~Protected(g)
      BY <1>5, <3>1, <3>2 DEF LInv, Purging, CheckedUnprotected
    <3> QED
      BY <2>1, <2>3, <3>2, <3>3 DEF Condemned
  <2> QED
    BY <1>1, <2>2, <2>3 DEF Covers
<1>8. \A c \in Batch : Condemned(c) => Condemned(c)'
  BY <1>5 DEF Condemned
<1>9. Shape'
  <2>1. file' \in [File -> [batch : Batch \union {NoTarget},
                            stage : {"absent", "waiting", "gone"} \union Terminal,
                            signed : BOOLEAN, merged : BOOLEAN,
                        put : {"none", "awaited", "done", "late"}, stored : BOOLEAN]]
    BY <1>3 DEF Unstore, FileTyped
  <2>2. LifecycleTypeOK'
    BY <1>1, <2>1 DEF Shape, LifecycleTypeOK
  <2>3. FilesReal'
    <3>1. \A f \in File : file[f].stage = "absent" => f \notin S
      BY <1>1
    <3> QED
      BY <1>1, <1>3, <3>1 DEF Shape, FilesReal
  <2>4. LambdaReal'
    BY <1>1, <1>3, <1>4, <1>5 DEF Shape, LambdaReal
  <2>5. BatchesReal' /\ WebReal'
    BY <1>1, <1>3, <1>5 DEF Shape, BatchesReal, WebReal
  <2> QED
    BY <2>2, <2>3, <2>4, <2>5 DEF Shape
<1>10. OwnerRuns' /\ BatchWork' /\ PurgeExclusive'
  BY <1>4, <1>5 DEF LInv, Purging, OwnerRuns, BatchWork, PurgeExclusive, Target
<1>11. PendingOK'
  BY <1>5, <1>8 DEF LInv, Purging, PendingOK, Target
<1>12. LostOK'
  BY <1>1, <1>3, <1>5, <1>6, <1>7, <1>8
  DEF Shape, FilesReal, LInv, Purging, LostOK, Lost, LostRow
<1>13. NoMixedPurge' /\ ObjectsBeforeRows'
  BY <1>3, <1>5 DEF LInv, Purging, NoMixedPurge, ObjectsBeforeRows, Target
<1>14. ProtectedKept'
  BY <1>1, <1>3, <1>5, <1>7, LifecycleAssumption
  DEF LInv, Purging, ProtectedKept, Exists
<1>15. BlockedIntact'
  <2> SUFFICES ASSUME NEW m \in Lambda, lambda'[m].on \in Batch \ overtaken,
                      lambda'[m].at = "blocking"
               PROVE  /\ lambda[m].on \notin Pending
                      /\ \A f \in FilesOf(lambda[m].on) : ~Lost(f)'
    BY <1>4, <1>5 DEF BlockedIntact
  <2>1. m # l /\ lambda[m].at = "blocking" /\ lambda[m].on \in Batch \ overtaken
    BY <1>4
  <2>2. lambda[m].on \notin Pending /\ \A f \in FilesOf(lambda[m].on) : ~Lost(f)
    BY <2>1 DEF LInv, Purging, BlockedIntact
  <2>3. ASSUME NEW f \in FilesOf(lambda[m].on), f \in S
        PROVE  FALSE
    <3>1. f \in File /\ file[f].batch = lambda[m].on
      BY DEF FilesOf
    <3>2. Exists(f) /\ Kept(f) /\ purge[f] = "none"
      BY <2>1, CoveredFacts
    <3>3. lambda[l].on = lambda[m].on
      BY <1>7, <2>3, <3>1, <3>2
    <3> QED
      BY <2>1, <3>3, LifecycleAssumption DEF LInv, Purging, PurgeExclusive
  <2> QED
    BY <1>5, <1>6, <2>1, <2>2, <2>3
<1>16. CheckedUnprotected'
  BY <1>4, <1>5 DEF LInv, Purging, CheckedUnprotected, Target
<1>17. ClearedEmpty'
  <2> SUFFICES ASSUME NEW m \in Lambda, NEW f \in File, Covers(m, f), Kept(f), Exists(f),
                      file[f].put # "late"
               PROVE  /\ lambda'[m].at = "collected" => f \in lambda[m].keys \/ ~file'[f].stored
                      /\ lambda'[m].at = "cleared" => ~file'[f].stored
    BY <1>3, <1>4, <1>5 DEF ClearedEmpty, Target
  <2>1. /\ lambda[m].at = "collected" => f \in lambda[m].keys \/ ~file[f].stored
        /\ lambda[m].at = "cleared" => ~file[f].stored
    BY DEF LInv, Purging, ClearedEmpty
  <2>2. file'[f].stored => file[f].stored /\ f \notin S
    BY <1>3
  <2>3. CASE m = l
    BY <1>4, <2>1, <2>2, <2>3
  <2>4. CASE m # l
    BY <1>4, <2>1, <2>2, <2>4
  <2> QED
    BY <2>3, <2>4
<1> QED
  BY <1>9, <1>10, <1>11, <1>12, <1>13, <1>14, <1>15, <1>16, <1>17 DEF LInv, Purging

-----------------------------------------------------------------------------
LEMMA ClearKeeps ==
  ASSUME LInv, NEW l \in Lambda, ClearObjects(l) \/ ClearSome(l)
  PROVE  LInv'
<1>1. CASE ClearObjects(l)
  BY <1>1, UnstoreKeeps DEF ClearObjects
<1>2. CASE ClearSome(l)
  BY <1>2, UnstoreKeeps DEF ClearSome
<1> QED
  BY <1>1, <1>2

(* The rows of a target go, when none of its files has objects left.       *)
LEMMA PurgeRowsKeeps ==
  ASSUME LInv, NEW l \in Lambda, PurgeRows(l)
  PROVE  LInv'
<1> DEFINE t == lambda[l].on
           G == {f \in File : f = t \/ f \in FilesOf(t)}
           newBatch == [batch[t] EXCEPT !.state = "gone"]
<1>1. /\ Shape /\ lambda[l].at = "cleared"
      /\ UNCHANGED <<event, dispatching, web, overtaken>>
      /\ file' = [f \in File |-> IF f \in G THEN [file[f] EXCEPT !.stage = "gone"] ELSE file[f]]
      /\ batch' = IF t \in Batch THEN [batch EXCEPT ![t] = newBatch] ELSE batch
      /\ purge' = [u \in Target |-> IF u = t \/ u \in G THEN "none" ELSE purge[u]]
      /\ lambda' = [lambda EXCEPT ![l] = [at |-> "idle", on |-> NoTarget, keys |-> {}]]
      /\ DOMAIN batch = Batch /\ DOMAIN purge = Target /\ DOMAIN lambda = Lambda
      /\ overtaken \subseteq Batch
      /\ batch = [b \in Batch |-> batch[b]]
  BY DEF PurgeRows, Finish, FilesOf, LInv, Shape, LifecycleTypeOK
<1>2. t \in Target /\ G \subseteq File
  BY <1>1, CoveredFacts
<1>3. \A f \in File : FileTyped(file[f])
  BY DEF LInv, Shape, LifecycleTypeOK, FileTyped
<1>4. \A b \in Batch : BatchTyped(batch[b])
  BY DEF LInv, Shape, LifecycleTypeOK, BatchTyped
<1>5. \A f \in G : Covers(l, f) /\ file[f].stage # "absent"
  BY <1>2, LifecycleAssumption
  DEF FilesOf, Covers, LInv, Shape, LambdaReal, FilesReal, NewFile, Target
<1>6. ASSUME NEW f \in G, Kept(f)
      PROVE  ~Protected(f) /\ (file[f].put # "late" => ~file[f].stored)
  <2>1. CASE Exists(f)
    BY <1>1, <1>2, <1>5, <1>6, <2>1 DEF LInv, Purging, CheckedUnprotected, ClearedEmpty
  <2>2. CASE ~Exists(f)
    BY <1>2, <1>5, <1>6, <2>2, LifecycleAssumption
    DEF LInv, Purging, ProtectedKept, ObjectsBeforeRows, Exists
  <2> QED
    BY <2>1, <2>2
<1>7. (t \in File => t \in G) /\ FilesOf(t) \subseteq G
  BY DEF FilesOf
<1>8. t # NoTarget /\ (t \in Batch => t \notin File)
  BY <1>2, LifecycleAssumption DEF Target
<1>9a. \A m \in Lambda \ {l} : lambda[m].on = t => t \in overtaken
  BY <1>1, <1>8 DEF LInv, Purging, PurgeExclusive
<1> HIDE DEF G, t
<1>9. \A f \in File :
        /\ file'[f].batch = file[f].batch /\ file'[f].signed = file[f].signed
        /\ file'[f].merged = file[f].merged /\ file'[f].put = file[f].put
        /\ file'[f].stored = file[f].stored
        /\ file'[f].stage = IF f \in G THEN "gone" ELSE file[f].stage
        /\ FileTyped(file'[f])
        /\ f \notin G => file'[f] = file[f]
  BY <1>1, <1>3 DEF FileTyped
<1>10. /\ t \in Batch => BatchTyped(newBatch) /\ newBatch.state = "gone"
                         /\ newBatch.deleted = batch[t].deleted /\ newBatch.due = batch[t].due
  BY <1>4 DEF BatchTyped
<1> HIDE DEF newBatch
<1>11. \A b \in Batch :
        /\ b # t => batch'[b] = batch[b]
        /\ b = t => batch'[b].state = "gone"
        /\ batch'[b].deleted = batch[b].deleted /\ batch'[b].due = batch[b].due
        /\ BatchTyped(batch'[b])
  BY <1>1, <1>4, <1>10
<1>12. /\ lambda'[l].at = "idle" /\ lambda'[l].on = NoTarget /\ lambda'[l].keys = {}
       /\ \A m \in Lambda \ {l} : lambda'[m] = lambda[m]
  BY <1>1
<1>13. /\ \A u \in Target : Exists(u)' => Exists(u) /\ u # t /\ purge'[u] = purge[u]
       /\ \A f \in File : Exists(f)' => f \notin G
       /\ \A b \in Batch : Exists(b) /\ b # t => Exists(b)'
       /\ \A u \in Target : purge'[u] = purge[u] \/ purge'[u] = "none"
       /\ \A b \in Batch : b # t => purge'[b] = purge[b]
  <2>1. \A f \in File : Exists(f)' => f \notin G /\ Exists(f)
    BY <1>9, LifecycleAssumption DEF Exists
  <2>2. \A b \in Batch : Exists(b)' <=> Exists(b) /\ b # t
    BY <1>11 DEF Exists
  <2>3. /\ \A u \in Target : purge'[u] = IF u = t \/ u \in G THEN "none" ELSE purge[u]
        /\ \A b \in Batch : b \notin G
    BY <1>1, <1>2, LifecycleAssumption
  <2>4. t \in File => t \in G
    BY <1>7
  <2> QED
    BY <2>1, <2>2, <2>3, <2>4 DEF Target
<1>14. /\ \A c \in Batch : FilesOf(c)' \subseteq FilesOf(c) /\ FilesOf(c) \subseteq File
       /\ \A f \in File : Protected(f)' = Protected(f) /\ Kept(f)' = Kept(f)
       /\ \A f \in File : Lost(f)' => Lost(f) /\ f \notin G
       /\ \A m \in Lambda \ {l}, f \in File : Covers(m, f)' = Covers(m, f)
       /\ Pending' = Pending
  BY <1>1, <1>9, <1>12 DEF FilesOf, Protected, Kept, Lost, LostRow, Covers, Pending
<1>15. ASSUME NEW c \in Batch, c # t, Condemned(c)
       PROVE  Condemned(c)'
  BY <1>11, <1>13, <1>14, <1>15 DEF Condemned, Target
<1>16. Shape'
  <2>1. /\ file' \in [File -> [batch : Batch \union {NoTarget},
                            stage : {"absent", "waiting", "gone"} \union Terminal,
                            signed : BOOLEAN, merged : BOOLEAN,
                        put : {"none", "awaited", "done", "late"}, stored : BOOLEAN]]
        /\ batch' \in [Batch -> [state : {"absent", "open", "closed", "gone"},
                                 deleted : BOOLEAN, due : BOOLEAN]]
    BY <1>1, <1>9, <1>11 DEF FileTyped, BatchTyped
  <2>2. /\ purge' \in [Target -> {"none", "scheduled", "queued", "running", "failed", "blocked"}]
        /\ lambda' \in [Lambda ->
             [at : {"idle", "claimed", "checked", "blocking", "collected", "cleared", "failing"},
              on : Target \union {NoTarget}, keys : SUBSET File]]
    BY <1>1 DEF Shape, LifecycleTypeOK
  <2>3. LifecycleTypeOK'
    BY <1>1, <2>1, <2>2 DEF Shape, LifecycleTypeOK
  <2>4. BatchesReal'
    BY <1>1, <1>11, <1>14 DEF Shape, BatchesReal
  <2>5. FilesReal'
    BY <1>1, <1>5, <1>9, <1>13 DEF Shape, FilesReal, Target
  <2>6. LambdaReal'
    <3>1. \A b \in Batch : batch'[b].state = "absent" => batch[b].state = "absent"
      BY <1>11
    <3>2. \A f \in File : file'[f].stage = "absent" => file[f].stage = "absent"
      BY <1>9
    <3>3. \A m \in Lambda : lambda[m].keys \subseteq File
      BY <1>1 DEF Shape, LifecycleTypeOK
    <3>4. ASSUME NEW m \in Lambda \ {l}
          PROVE  \A f \in lambda'[m].keys : file'[f].stage # "absent" /\ Covers(m, f)'
      BY <1>1, <1>12, <1>14, <3>2, <3>3 DEF Shape, LambdaReal
    <3> QED
      BY <1>1, <1>12, <3>1, <3>2, <3>4, LifecycleAssumption DEF Shape, LambdaReal
  <2>7. WebReal'
    BY <1>1, <1>9 DEF Shape, WebReal
  <2> QED
    BY <2>3, <2>4, <2>5, <2>6, <2>7 DEF Shape
<1>17. OwnerRuns' /\ BatchWork' /\ PurgeExclusive'
  <2>1. OwnerRuns'
    BY <1>1, <1>8, <1>12, <1>13, LifecycleAssumption DEF LInv, Purging, OwnerRuns, Target
  <2>2. BatchWork'
    BY <1>1, <1>11, <1>12, <1>13, <1>9a, LifecycleAssumption DEF LInv, Purging, BatchWork
  <2>3. PurgeExclusive'
    BY <1>1, <1>12 DEF LInv, Purging, PurgeExclusive
  <2> QED
    BY <2>1, <2>2, <2>3
<1>18. PendingOK'
  BY <1>1, <1>13, <1>14, <1>15 DEF LInv, Purging, PendingOK, Target
<1>19. LostOK'
  <2> SUFFICES ASSUME NEW f \in File, Lost(f)', Kept(f),
                      NEW c, c = file[f].batch
               PROVE  purge'[f] # "none" \/ Condemned(c)'
    BY <1>9, <1>14 DEF LostOK
  <2>1. Lost(f) /\ f \notin G /\ Exists(f)' /\ f \in FilesOf(file[f].batch)
        /\ file[f].batch \in Batch
    BY <1>1, <1>9, <1>14, LifecycleAssumption
    DEF Lost, LostRow, Exists, FilesOf, Shape, FilesReal
  <2>2. file[f].batch # t
    BY <1>7, <2>1
  <2> QED
    <3>1. purge[f] # "none" \/ Condemned(file[f].batch)
      BY <2>1 DEF LInv, Purging, LostOK
    <3>2. purge'[f] = purge[f]
      BY <1>13, <2>1 DEF Target
    <3> QED
      BY <1>15, <2>1, <2>2, <3>1, <3>2
<1>20. NoMixedPurge'
  BY <1>1, <1>9, <1>11, <1>13, <1>14, LifecycleAssumption
  DEF LInv, Shape, FilesReal, Purging, NoMixedPurge, Target, Exists
<1>21. ProtectedKept' /\ ObjectsBeforeRows'
  BY <1>6, <1>9, <1>14 DEF LInv, Purging, ProtectedKept, ObjectsBeforeRows
<1>22. BlockedIntact'
  BY <1>1, <1>12, <1>14 DEF LInv, Purging, BlockedIntact
<1>23. CheckedUnprotected' /\ ClearedEmpty'
  BY <1>9, <1>12, <1>13, <1>14 DEF LInv, Purging, CheckedUnprotected, ClearedEmpty, Target
<1> QED
  BY <1>16, <1>17, <1>18, <1>19, <1>20, <1>21, <1>22, <1>23 DEF LInv, Purging

-----------------------------------------------------------------------------
(* The status of a purge that failed, or was blocked before it began.      *)
LEMMA MarkStatusKeeps ==
  ASSUME LInv, NEW l \in Lambda, MarkPurgeStatus(l)
  PROVE  LInv'
<1> DEFINE t == lambda[l].on
           status == IF ~Exists(t) THEN purge[t]
                     ELSE IF lambda[l].at = "failing" THEN "failed" ELSE "blocked"
<1>1. /\ Shape /\ UNCHANGED <<batch, file, event, dispatching, web, overtaken>>
      /\ purge' = [purge EXCEPT ![t] = status]
      /\ lambda' = [lambda EXCEPT ![l] = [at |-> "idle", on |-> NoTarget, keys |-> {}]]
      /\ DOMAIN purge = Target /\ DOMAIN lambda = Lambda
      /\ lambda[l].at \in {"failing", "blocking"} /\ overtaken \subseteq Batch
  BY DEF LInv, Shape, LifecycleTypeOK, MarkPurgeStatus, Finish
<1>2. t \in Target /\ t # NoTarget
  BY <1>1, CoveredFacts, LifecycleAssumption DEF Target
<1>3. \A f \in File : t = f /\ Exists(f) => purge[f] = "running"
  BY <1>1, CoveredFacts
<1>4. \A m \in Lambda \ {l} : lambda[m].on = t => t \in overtaken
  BY <1>1, <1>2 DEF LInv, Purging, PurgeExclusive
<1>5. t \in Batch \ overtaken /\ lambda[l].at = "blocking" =>
        t \notin Pending /\ \A f \in FilesOf(t) : ~Lost(f)
  BY DEF LInv, Purging, BlockedIntact
<1>6. /\ Exists(t) => /\ lambda[l].at = "failing" => status = "failed"
                      /\ status # "none"
      /\ ~Exists(t) => status = purge[t]
      /\ status \in {"none", "scheduled", "queued", "running", "failed", "blocked"}
  BY <1>1, <1>2 DEF Shape, LifecycleTypeOK
<1> HIDE DEF t, status
<1>7. /\ \A u \in Target : purge'[u] = IF u = t THEN status ELSE purge[u]
      /\ lambda'[l].at = "idle" /\ lambda'[l].on = NoTarget /\ lambda'[l].keys = {}
      /\ \A m \in Lambda \ {l} : lambda'[m] = lambda[m]
  BY <1>1
<1>8. /\ \A u \in Target : Exists(u)' = Exists(u)
      /\ \A c \in Batch : FilesOf(c)' = FilesOf(c) /\ FilesOf(c) \subseteq File
      /\ \A f \in File : Protected(f)' = Protected(f) /\ Kept(f)' = Kept(f) /\ Lost(f)' = Lost(f)
      /\ \A m \in Lambda \ {l}, f \in File : Covers(m, f)' = Covers(m, f)
      /\ Pending' = Pending
  BY <1>1, <1>7 DEF Exists, FilesOf, Protected, Kept, Lost, LostRow, Covers, Pending
<1>9. \A b \in Batch : \A f \in FilesOf(b) : Exists(f)
  BY LifecycleAssumption DEF LInv, Shape, FilesReal, FilesOf, Exists, NewFile
<1>10. ASSUME NEW c \in Batch, Condemned(c), c = t => lambda[l].at = "failing"
       PROVE  Condemned(c)'
  <2>1. \A f \in FilesOf(c) : f # t /\ f \in Target /\ purge'[f] = purge[f]
    BY <1>3, <1>7, <1>8, <1>9, <1>10 DEF Condemned, Target
  <2>2. purge'[c] \in {"queued", "running", "failed"}
    BY <1>6, <1>7, <1>10 DEF Condemned, Target
  <2> QED
    BY <1>1, <1>8, <1>10, <2>1, <2>2 DEF Condemned
<1>11. Shape'
  <2>1. LifecycleTypeOK'
    BY <1>1, <1>6 DEF Shape, LifecycleTypeOK
  <2>2. BatchesReal' /\ WebReal'
    BY <1>1, <1>8 DEF Shape, BatchesReal, WebReal
  <2>3. FilesReal'
    BY <1>1, <1>6, <1>7, LifecycleAssumption DEF Shape, FilesReal, Target, Exists
  <2>4. LambdaReal'
    <3>1. \A m \in Lambda : lambda[m].keys \subseteq File
      BY <1>1 DEF Shape, LifecycleTypeOK
    <3>2. ASSUME NEW m \in Lambda \ {l}
          PROVE  \A f \in lambda'[m].keys : file'[f].stage # "absent" /\ Covers(m, f)'
      BY <1>1, <1>7, <1>8, <3>1 DEF Shape, LambdaReal
    <3> QED
      BY <1>1, <1>7, <3>2, LifecycleAssumption DEF Shape, LambdaReal
  <2> QED
    BY <2>1, <2>2, <2>3, <2>4 DEF Shape
<1>12. OwnerRuns'
  BY <1>1, <1>4, <1>7, <1>8, LifecycleAssumption DEF LInv, Purging, OwnerRuns, Target
<1>13. BatchWork' /\ PurgeExclusive'
  BY <1>1, <1>7, <1>8, LifecycleAssumption
  DEF LInv, Purging, BatchWork, PurgeExclusive, Target
<1>14. PendingOK'
  BY <1>1, <1>5, <1>8, <1>10 DEF LInv, Purging, PendingOK, Target
<1>15. LostOK'
  <2> SUFFICES ASSUME NEW f \in File, Lost(f), Kept(f),
                      NEW c, c = file[f].batch
               PROVE  purge'[f] # "none" \/ Condemned(c)'
    BY <1>1, <1>8 DEF LostOK
  <2>1. /\ purge[f] # "none" \/ Condemned(file[f].batch)
        /\ file[f].batch \in Batch \ overtaken /\ f \in FilesOf(file[f].batch)
    BY <1>1 DEF LInv, Purging, LostOK, Lost, LostRow, Kept, FilesOf, Shape, FilesReal
  <2>2. CASE purge[f] # "none"
    BY <1>6, <1>7, <2>2 DEF Target
  <2>3. CASE Condemned(file[f].batch)
    BY <1>1, <1>5, <1>10, <2>1, <2>3
  <2> QED
    BY <2>1, <2>2, <2>3
<1>16. NoMixedPurge'
  BY <1>1, <1>3, <1>7, <1>8 DEF LInv, Purging, NoMixedPurge, Target
<1>17. ProtectedKept' /\ ObjectsBeforeRows'
  BY <1>1, <1>8 DEF LInv, Purging, ProtectedKept, ObjectsBeforeRows
<1>18. BlockedIntact'
  BY <1>1, <1>7, <1>8 DEF LInv, Purging, BlockedIntact
<1>19. CheckedUnprotected' /\ ClearedEmpty'
  BY <1>1, <1>7, <1>8 DEF LInv, Purging, CheckedUnprotected, ClearedEmpty, Target
<1> QED
  BY <1>11, <1>12, <1>13, <1>14, <1>15, <1>16, <1>17, <1>18, <1>19 DEF LInv, Purging

-----------------------------------------------------------------------------
(* Every step keeps the invariant.                                         *)
LEMMA LifecycleKeeps == LInv /\ [LifecycleNext]_lifecycleVars => LInv'
<1> SUFFICES ASSUME LInv, [LifecycleNext]_lifecycleVars
             PROVE  LInv'
  OBVIOUS
<1>1. ASSUME NEW r \in Request, ServeRequest(r)
      PROVE  LInv'
  BY <1>1, ReadsKeep, FilesKeep, BatchesKeep, RestoreKeeps DEF ServeRequest
<1>2. ASSUME NEW b \in Batch,
             CloseBatch(b) \/ DeleteBatch(b) \/ RetentionEnds(b) \/ QueueBatchPurge(b)
      PROVE  LInv'
  BY <1>2, BatchesKeep, DeleteKeeps, QueueBatchKeeps
<1>3. ASSUME NEW f \in File,
             \/ PutObject(f) \/ UrlExpires(f) \/ ProcessFile(f) \/ RetryFile(f)
             \/ QueueUploadPurge(f)
      PROVE  LInv'
  BY <1>3, FilesKeep, DispatchKeeps
<1>4. ASSUME NEW t \in Target, Dispatch(t) \/ MarkDispatchFailed(t)
      PROVE  LInv'
  BY <1>4, DispatchKeeps
<1>5. ASSUME NEW l \in Lambda, \E t \in Target : ClaimPurge(l, t)
      PROVE  LInv'
  BY <1>5, ClaimKeeps
<1>6. ASSUME NEW l \in Lambda, Work(l) \/ LambdaStops(l)
      PROVE  LInv'
  BY <1>6, CheckAndCollectKeep, FailAndStopKeep, ClearKeeps, PurgeRowsKeeps, MarkStatusKeeps
  DEF Work
<1>7. CASE UNCHANGED lifecycleVars
  <2>1. Shape'
    BY <1>7, ShapeUnchanged DEF lifecycleVars, LInv, Shape, LifecycleTypeOK, WebTyped
  <2>2. Purging'
    BY <1>7, PurgingUnchanged DEF lifecycleVars, LInv
  <2> QED
    BY <2>1, <2>2 DEF LInv
<1> QED
  BY <1>1, <1>2, <1>3, <1>4, <1>5, <1>6, <1>7 DEF LifecycleNext

LEMMA LifecycleInvariant == LifecycleSpec => []LInv
BY LifecycleInitially, LifecycleKeeps, PTL DEF LifecycleSpec

-----------------------------------------------------------------------------
(* Rows, requests and invocations have the states the code gives them.     *)
THEOREM LifecycleTypes == LifecycleSpec => []LifecycleTypeOK
<1>1. LInv => LifecycleTypeOK
  BY DEF LInv, Shape
<1> QED
  BY <1>1, LifecycleInvariant, PTL

(* A signed or merged certificate is never purged, whoever races.          *)
THEOREM ProtectedSafe == LifecycleSpec => []ProtectedKept
<1>1. LInv => ProtectedKept
  BY DEF LInv, Purging
<1> QED
  BY <1>1, LifecycleInvariant, PTL

(* One target is never worked on by two invocations.                       *)
THEOREM OnePurge == LifecycleSpec => []PurgeExclusive
<1>1. LInv => PurgeExclusive
  BY DEF LInv, Purging
<1> QED
  BY <1>1, LifecycleInvariant, PTL

(* A batch that is being purged is deleted and cannot be restored.         *)
THEOREM OnlyDeleted == LifecycleSpec => []OnlyDeletedPurged
<1>1. LInv => OnlyDeletedPurged
  BY DEF LInv, Purging, OwnerRuns, BatchWork, OnlyDeletedPurged
<1> QED
  BY <1>1, LifecycleInvariant, PTL

(* A file and its batch are never purged both.                             *)
THEOREM NeverMixed == LifecycleSpec => []NoMixedPurge
<1>1. LInv => NoMixedPurge
  BY DEF LInv, Purging
<1> QED
  BY <1>1, LifecycleInvariant, PTL

(* A purge that failed midway leaves no file that users may use again      *)
(* without its objects.                                                    *)
THEOREM LiveIntact == LifecycleSpec => []LiveFilesIntact
<1>1. ASSUME LInv, NEW f \in File,
             file[f].stage \in {"read", "unread"}, Available(f), Kept(f), ~file[f].stored
      PROVE  FALSE
  <2>1. purge[f] = "none" /\ ~Condemned(file[f].batch)
    BY <1>1 DEF Available, Condemned
  <2>2. Lost(f)
    BY <1>1 DEF LInv, Shape, FilesReal, Lost, LostRow
  <2> QED
    BY <1>1, <2>1, <2>2 DEF LInv, Purging, LostOK
<1>2. LInv => LiveFilesIntact
  BY <1>1 DEF LiveFilesIntact
<1> QED
  BY <1>2, LifecycleInvariant, PTL

(* The rows go only when nothing is left that only they lead to, but for   *)
(* documents sent to S3 after the objects had been collected.              *)
THEOREM NothingLeftBehind == LifecycleSpec => []ObjectsBeforeRows
<1>1. LInv => ObjectsBeforeRows
  BY DEF LInv, Purging
<1> QED
  BY <1>1, LifecycleInvariant, PTL
=============================================================================
