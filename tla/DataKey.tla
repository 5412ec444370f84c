------------------------------------ MODULE DataKey ------------------------------------
(***************************************************************************)
(* The key every stored password is sealed with.  The ExApp keeps it in    *)
(* the configuration of Nextcloud, makes it at the very first start, and   *)
(* has no compare-and-set to make it with; the standalone server reads it  *)
(* from a file an operator mounts, and keeps a check value beside the      *)
(* rows.  Workers start together, restart, and lose calls; a purge deletes *)
(* rows and key under the workers that go on running.                      *)
(***************************************************************************)
EXTENDS Integers, FiniteSets

CONSTANTS
  Worker,   \* processes over one store
  Key,      \* keys that may be made or mounted
  Mode,     \* how this deployment gets its key: "exapp" or "file"
  None

VARIABLES
  kept,     \* the key in Nextcloud's configuration, or in the mounted file
  checked,  \* whose check value store_meta holds (file mode)
  rows,     \* the keys that rows of the store are sealed with
  worker,   \* what each process is doing, what it made, what it read, what it holds
  used,     \* history: the keys that were ever made
  lost      \* history: keys a write or a purge took away from workers that had read them

vars == <<kept, checked, rows, worker, used, lost>>

DataKeyAssumption == Mode \in {"exapp", "file"} /\ None \notin Key

Maybe == Key \cup {None}
Closed == [at |-> "closed", made |-> None, key |-> None]

TypeOK ==
  /\ kept \in Maybe /\ checked \in Maybe
  /\ rows \subseteq Key /\ used \subseteq Key /\ lost \subseteq Key
  /\ worker \in [Worker -> [at : {"closed", "read", "write", "confirm", "again", "read back", "open"},
                            made : Maybe, key : Maybe]]

(* A file from before the check value was invented holds rows of one key.    *)
Init ==
  /\ IF Mode = "exapp" THEN kept = None /\ rows = {}
     ELSE kept \in Key /\ \E S \in SUBSET Key : Cardinality(S) <= 1 /\ rows = S
  /\ checked = None
  /\ worker = [w \in Worker |-> Closed]
  /\ used = rows \cup ({kept} \ {None})
  /\ lost = {}

-----------------------------------------------------------------------------
At(w, step) == worker[w].at = step
Goto(w, step) == worker' = [worker EXCEPT ![w].at = step]
Close(w) == worker' = [worker EXCEPT ![w] = Closed]
HasRead == {w \in Worker : worker[w].at \in {"read back", "open"}}

(* Whoever has read or used a key before this change has one that is gone.    *)
Overtaken(new) == lost' = lost \cup ((rows \cup {worker[w].key : w \in HasRead}) \ {new, None})

(* open_once: one attempt per process at a time, and the next request tries  *)
(* again after one that failed.                                              *)
Open(w) ==
  /\ At(w, "closed") /\ Goto(w, "read")
  /\ UNCHANGED <<kept, checked, rows, used, lost>>

Raise(w) ==
  /\ worker[w].at \notin {"closed", "open"} /\ Close(w)
  /\ UNCHANGED <<kept, checked, rows, used, lost>>

Adopt(w, k) == worker' = [worker EXCEPT ![w].at = "read back", ![w].key = k]

ReadKey(w) ==
  /\ Mode = "exapp" /\ At(w, "read")
  /\ IF kept # None
     THEN Adopt(w, kept) /\ UNCHANGED used
     ELSE \E k \in Key \ used :
            /\ worker' = [worker EXCEPT ![w].at = "write", ![w].made = k]
            /\ used' = used \cup {k}
  /\ UNCHANGED <<kept, checked, rows, lost>>

(* The answer to a write that arrived may be lost.                           *)
WriteKey(w) ==
  /\ At(w, "write")
  /\ kept' = worker[w].made
  /\ Overtaken(worker[w].made)
  /\ (Goto(w, "confirm") \/ Close(w))
  /\ UNCHANGED <<checked, rows, used>>

(* A worker whose key is not the one that is kept has lost the race.  One    *)
(* that finds its own asks once more, for the write that was on its way.     *)
TrustsItsOwn(w) == Adopt(w, worker[w].made)
Settled(w) ==
  IF kept = None THEN Close(w)
  ELSE IF kept # worker[w].made THEN Adopt(w, kept) ELSE Goto(w, "again")

Confirm(w) ==
  /\ At(w, "confirm") /\ Settled(w)
  /\ UNCHANGED <<kept, checked, rows, used, lost>>

ConfirmAgain(w) ==
  /\ At(w, "again")
  /\ IF kept = None THEN Close(w) ELSE Adopt(w, kept)
  /\ UNCHANGED <<kept, checked, rows, used, lost>>

Opened(w) ==
  /\ Mode = "exapp" /\ At(w, "read back") /\ Goto(w, "open")
  /\ UNCHANGED <<kept, checked, rows, used, lost>>

-----------------------------------------------------------------------------
(* file_key, and verify_data_key in one immediate transaction: a recorded    *)
(* check value decides, and without one the rows that are there.             *)
ReadFile(w) ==
  /\ Mode = "file" /\ At(w, "read") /\ Adopt(w, kept)
  /\ UNCHANGED <<kept, checked, rows, used, lost>>

VouchesUnseen(k) == checked = None
Vouches(k) == checked = None /\ (rows = {} \/ k \in rows)

VerifyDataKey(w) ==
  LET k == worker[w].key IN
  /\ Mode = "file" /\ At(w, "read back")
  /\ IF Vouches(k) THEN checked' = k /\ Goto(w, "open")
     ELSE UNCHANGED checked /\ (IF checked = k THEN Goto(w, "open") ELSE Close(w))
  /\ UNCHANGED <<kept, rows, used, lost>>

Mount(k) ==
  /\ Mode = "file" /\ kept' = k /\ used' = used \cup {k}
  /\ UNCHANGED <<checked, rows, worker, lost>>

-----------------------------------------------------------------------------
Seal(w) ==
  /\ At(w, "open")
  /\ rows' = rows \cup {worker[w].key}
  /\ UNCHANGED <<kept, checked, worker, used, lost>>

Restart(w) ==
  /\ ~ At(w, "closed") /\ Close(w)
  /\ UNCHANGED <<kept, checked, rows, used, lost>>

(* The two last steps of occ purge, of which the first may fail and the      *)
(* second follows all the same.  The workers keep their stores open.         *)
Purge(wiped) ==
  /\ Mode = "exapp" /\ \E w \in Worker : At(w, "open")
  /\ rows' = IF wiped THEN {} ELSE rows
  /\ checked' = IF wiped THEN None ELSE checked
  /\ UNCHANGED <<kept, worker, used, lost>>

DeleteKey ==
  /\ Mode = "exapp" /\ kept # None
  /\ kept' = None
  /\ lost' = lost \cup rows \cup ({worker[w].key : w \in HasRead} \ {None})
  /\ UNCHANGED <<checked, rows, worker, used>>

Next ==
  \/ \E w \in Worker : \/ Open(w) \/ Raise(w) \/ ReadKey(w) \/ WriteKey(w) \/ Confirm(w)
                       \/ ConfirmAgain(w) \/ Opened(w) \/ ReadFile(w) \/ VerifyDataKey(w)
                       \/ Seal(w) \/ Restart(w)
  \/ \E k \in Key : Mount(k)
  \/ \E wiped \in BOOLEAN : Purge(wiped)
  \/ DeleteKey

Spec == Init /\ [][Next]_vars

-----------------------------------------------------------------------------
(* What one worker seals, every worker that starts later can open.  Where    *)
(* Nextcloud keeps the key the exceptions are the ones its documentation     *)
(* names: a key that was overwritten after a worker had read it for the last *)
(* time, and one that a purge deleted.  With a key file there is none: no    *)
(* worker opens a store under another key than the one its rows are sealed   *)
(* with, whatever is mounted, and however many start at once.                *)
Standing == IF Mode = "exapp" THEN {kept} \cup lost ELSE {checked}

OneKeyOpens ==
  /\ rows \subseteq Standing \/ (Mode = "file" /\ checked = None)
  /\ \A w \in Worker : At(w, "open") => worker[w].key \in Standing
=====================================================================================
