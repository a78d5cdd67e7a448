---------------------------- MODULE ScriptCache ----------------------------
(***************************************************************************)
(* fys::cache::Cml with CmlCopy: the scripts of a server, looked for in    *)
(* its memory, then in its local storage, then in the folder they are      *)
(* copied from. The files of both places may change at any time. A content *)
(* is a value; keys are taken to name distinct files.                      *)
(***************************************************************************)
EXTENDS Integers

CONSTANTS
  Keys,      \* keys of the scripts
  Contents,  \* what a file may hold
  Absent,    \* no file, no entry, or the empty answer
  EpochGap,  \* how far the clock of the files is behind the system's
  MaxNow     \* bound of the model: ticks of the clock

VARIABLES
  now,     \* the system's clock
  source,  \* files of _copyPathStorage
  local,   \* files of _localPathStorage, with the time they were written
  mem      \* _inMemCache

cacheVars == <<now, source, local, mem>>

LocalFile == [content : Contents, writeTime : Nat]
InMemoryCached == [content : Contents, timestamp : Nat]

ASSUME CacheAssumption ==
  /\ Absent \notin Contents \cup LocalFile \cup InMemoryCached
  /\ EpochGap \in Nat /\ MaxNow \in Nat

-----------------------------------------------------------------------------

IsInLocalStorage(k) == local[k] # Absent

(* CmlCopy: a source that is not there leaves the local storage as it is.  *)
CreateFileInLocalStorage(k) ==
  IF source[k] = Absent THEN Absent ELSE [content |-> source[k], writeTime |-> now]

(* The file findInCache ends up with: what is not there is copied, and the *)
(* function calls itself once to look for it again, memory first.          *)
LookedUp(k) == IF IsInLocalStorage(k) THEN local[k] ELSE CreateFileInLocalStorage(k)

\* Slip: a file that is there is up to date.
FileIsUpToDate(file, timestamp) == file # Absent

(* Both times are counted from the epoch of their own clock.               *)
FileIsThereAndUpToDate(file, timestamp) ==
  file # Absent /\ file.writeTime - EpochGap <= timestamp

(* The test of both looks: the first fails for a file that is not there.   *)
AnsweredFromMemory(k) ==
  mem[k] # Absent /\ FileIsThereAndUpToDate(LookedUp(k), mem[k].timestamp)

\* Slip: a file just created is not looked for again.
CreatedAnswersEmpty(k) ==
  IF AnsweredFromMemory(k) THEN mem[k].content
  ELSE IF IsInLocalStorage(k) THEN local[k].content ELSE Absent

(* What findInCache answers.                                               *)
Found(k) ==
  IF AnsweredFromMemory(k) THEN mem[k].content
  ELSE IF LookedUp(k) # Absent THEN LookedUp(k).content ELSE Absent

(* What findInCache does: memory and local storage once k was asked for.   *)
FindInCache(k) ==
  /\ local' = IF IsInLocalStorage(k) THEN local ELSE [local EXCEPT ![k] = LookedUp(k)]
  /\ mem' = IF AnsweredFromMemory(k) \/ LookedUp(k) = Absent THEN mem
            ELSE [mem EXCEPT ![k] = [content |-> LookedUp(k).content, timestamp |-> now]]
  /\ UNCHANGED <<now, source>>

-----------------------------------------------------------------------------
(* A server started on an empty local storage, and who changes its files.  *)

CacheInit ==
  /\ now = 0
  /\ source \in [Keys -> Contents \cup {Absent}]
  /\ local = [k \in Keys |-> Absent]
  /\ mem = [k \in Keys |-> Absent]

Tick == now < MaxNow /\ now' = now + 1 /\ UNCHANGED <<source, local, mem>>

ChangeSource(k, content) ==
  /\ source[k] # content
  /\ source' = [source EXCEPT ![k] = content]
  /\ UNCHANGED <<now, local, mem>>

ChangeLocal(k, content) ==
  /\ IsInLocalStorage(k)
  /\ local' = [local EXCEPT ![k] = [content |-> content, writeTime |-> now]]
  /\ UNCHANGED <<now, source, mem>>

RemoveLocal(k) ==
  /\ IsInLocalStorage(k)
  /\ local' = [local EXCEPT ![k] = Absent]
  /\ UNCHANGED <<now, source, mem>>

(* A server that starts again finds the local storage of the former one.   *)
LoseMemory ==
  /\ mem' = [k \in Keys |-> Absent]
  /\ UNCHANGED <<now, source, local>>

CacheNext ==
  \/ Tick
  \/ \E k \in Keys, content \in Contents \cup {Absent} : ChangeSource(k, content)
  \/ \E k \in Keys, content \in Contents : ChangeLocal(k, content)
  \/ \E k \in Keys : RemoveLocal(k) \/ FindInCache(k)
  \/ LoseMemory

CacheSpec == CacheInit /\ [][CacheNext]_cacheVars

-----------------------------------------------------------------------------
(* Properties.                                                             *)

(* Every variable has its type, and no file or entry is dated in the       *)
(* future.                                                                 *)
CacheTypeOK ==
  /\ now \in Nat
  /\ source \in [Keys -> Contents \cup {Absent}]
  /\ local \in [Keys -> LocalFile \cup {Absent}]
  /\ mem \in [Keys -> InMemoryCached \cup {Absent}]
  /\ \A k \in Keys :
       /\ local[k] # Absent => local[k].writeTime <= now
       /\ mem[k] # Absent => mem[k].timestamp <= now

(* A script is only served from memory if its file still holds the same,   *)
(* or was written again within the tick it was read in: a file that was    *)
(* removed and is copied anew included.                                    *)
StaleOnlyWithinATick ==
  \A k \in Keys : AnsweredFromMemory(k) =>
    \/ Found(k) = LookedUp(k).content
    \/ LookedUp(k).writeTime = mem[k].timestamp
=============================================================================
