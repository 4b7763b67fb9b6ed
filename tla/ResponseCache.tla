----------------------------- MODULE ResponseCache -----------------------------
(***************************************************************************)
(* CachingLLM of evals/cache.py: the files that eval runs sharing one      *)
(* cache directory read, drop, write and rename.  A file is an inode: the  *)
(* temporary name and the entry's name point to it, and a writer goes on   *)
(* writing to the inode it opened whatever the names do meanwhile.         *)
(***************************************************************************)
CONSTANTS
  Key,          \* the questions: cache_key of provider, model, temperature, prompts
  Task,         \* the calls of complete()
  KeyOf,        \* KeyOf[t]: the question task t asks
  Process,      \* the eval runs
  ProcessOf,    \* ProcessOf[t]: the run task t belongs to
  Uncached,     \* the runs started with --no-cache
  None

ASSUME CacheAssumption ==
  /\ KeyOf \in [Task -> Key]
  /\ ProcessOf \in [Task -> Process]
  /\ Uncached \subseteq Process
  /\ Key \intersect Task = {}
  /\ {None, "stale", "torn"} \intersect (Key \union Task) = {}

\* An inode is named by the task that created it, one from before by its key; an answer is
\* named by who asked for it.
File == Key \union Task
Answers == Key \union Task
QuestionOf(x) == IF x \in Task THEN KeyOf[x] ELSE x

VARIABLES
  entry,        \* entry[k]: the inode named k.json, or None
  temp,         \* temp[k]: the inode named k.tmp, or None
  body,         \* body[f]: the answer f holds whole, "stale" (old schema) or "torn"
  open,         \* open[t]: the inode task t opened for writing
  pc,           \* pc[t]: where complete() stands
  answer,       \* answer[t]: the answer task t returned
  met           \* met[k]: two tasks were writing the answer to k at one time

vars == <<entry, temp, body, open, pc, answer, met>>
files == <<entry, temp, body>>

Ended == {"answered", "unavailable", "raised", "killed"}
Opened == {"writing", "renaming"}
Places == {"new", "reading", "dropping", "asking", "opening"} \union Opened \union Ended

TypeOK ==
  /\ entry \in [Key -> File \union {None}]
  /\ temp \in [Key -> File \union {None}]
  /\ body \in [File -> Answers \union {"stale", "torn"}]
  /\ open \in [Task -> File \union {None}]
  /\ pc \in [Task -> Places]
  /\ answer \in [Task -> Answers \union {None}]
  /\ met \in [Key -> BOOLEAN]

\* The directory as an earlier run left it: each question unanswered, answered, or answered
\* in an older schema.
Init ==
  /\ entry \in {e \in [Key -> Key \union {None}] : \A k \in Key : e[k] \in {k, None}}
  /\ temp = [k \in Key |-> None]
  /\ body \in {b \in [File -> Answers \union {"stale", "torn"}] :
                 /\ \A k \in Key : b[k] \in {k, "stale"}
                 /\ \A t \in Task : b[t] = "torn"}
  /\ open = [t \in Task |-> None]
  /\ pc = [t \in Task |-> "new"]
  /\ answer = [t \in Task |-> None]
  /\ met = [k \in Key |-> FALSE]

----------------------------------------------------------------------------
Goto(t, place) == pc' = [pc EXCEPT ![t] = place]
Return(t, a) == Goto(t, "answered") /\ answer' = [answer EXCEPT ![t] = a]

\* Task t starts to write, and meets whoever has not got to the end of it.
Meet(t) ==
  met' = [met EXCEPT ![KeyOf[t]] =
            @ \/ \E s \in Task \ {t} : KeyOf[s] = KeyOf[t] /\ pc[s] \in Opened]

\* path.exists(), skipped by a run without the cache.
Look(t) ==
  /\ pc[t] = "new"
  /\ Goto(t, IF ProcessOf[t] \notin Uncached /\ entry[KeyOf[t]] # None
             THEN "reading" ELSE "asking")
  /\ UNCHANGED <<files, open, answer, met>>

\* read_text and the parse: a whole entry is replayed, a torn or stale one is to be dropped,
\* and one that another run has dropped meanwhile raises FileNotFoundError.
Read(t) ==
  /\ pc[t] = "reading"
  /\ LET f == entry[KeyOf[t]]
     IN  \/ f = None /\ Goto(t, "raised") /\ UNCHANGED answer
         \/ f # None /\ body[f] \in {"torn", "stale"} /\ Goto(t, "dropping") /\ UNCHANGED answer
         \/ f # None /\ body[f] \in Answers /\ Return(t, body[f])
  /\ UNCHANGED <<files, open, met>>

\* unlink(missing_ok=True): whatever the name points to by now.
Drop(t) ==
  /\ pc[t] = "dropping"
  /\ entry' = [entry EXCEPT ![KeyOf[t]] = None]
  /\ Goto(t, "asking")
  /\ UNCHANGED <<temp, body, open, answer, met>>

\* The model answers or is unavailable.
Ask(t) ==
  /\ pc[t] = "asking"
  /\ \/ Goto(t, "unavailable") /\ UNCHANGED answer
     \/ ProcessOf[t] \in Uncached /\ Return(t, t)
     \/ ProcessOf[t] \notin Uncached /\ Goto(t, "opening") /\ UNCHANGED answer
  /\ UNCHANGED <<files, open, met>>

\* A mutated form: one temporary name for every question.
SharedName(k) == CHOOSE x \in Key : TRUE

\* path.with_suffix(".tmp")
TempName(k) == k

\* A mutated form: the entry itself is opened, and renamed to itself.
OpenInPlace(t) ==
  /\ pc[t] = "opening"
  /\ LET k == KeyOf[t]
         f == IF entry[k] = None THEN t ELSE entry[k]
     IN  /\ open' = [open EXCEPT ![t] = f]
         /\ entry' = [entry EXCEPT ![k] = f]
         /\ temp' = [temp EXCEPT ![k] = f]
         /\ body' = [body EXCEPT ![f] = "torn"]
  /\ Meet(t) /\ Goto(t, "writing")
  /\ UNCHANGED answer

\* write_text opens the temporary file: one that exists is truncated.
Open(t) ==
  /\ pc[t] = "opening"
  /\ LET name == TempName(KeyOf[t])
         f == IF temp[name] = None THEN t ELSE temp[name]
     IN  /\ open' = [open EXCEPT ![t] = f]
         /\ temp' = [temp EXCEPT ![name] = f]
         /\ body' = [body EXCEPT ![f] = "torn"]
  /\ Meet(t) /\ Goto(t, "writing")
  /\ UNCHANGED <<entry, answer>>

\* The record is written from the start of the file: over a longer one another task wrote
\* into the same inode, its tail is left behind.
Write(t) ==
  /\ pc[t] = "writing"
  /\ \/ body' = [body EXCEPT ![open[t]] = t]
     \/ /\ body[open[t]] # "torn"
        /\ body' = [body EXCEPT ![open[t]] = "torn"]
  /\ Goto(t, "renaming")
  /\ UNCHANGED <<entry, temp, open, answer, met>>

\* temp.replace(path), and the answer is returned; if the name is gone, because another
\* task renamed it, FileNotFoundError is raised and the answer is lost.
Rename(t) ==
  /\ pc[t] = "renaming"
  /\ LET name == TempName(KeyOf[t])
     IN  \/ /\ temp[name] # None
            /\ entry' = [entry EXCEPT ![KeyOf[t]] = temp[name]]
            /\ temp' = [temp EXCEPT ![name] = None]
            /\ Return(t, t)
         \/ /\ temp[name] = None
            /\ Goto(t, "raised")
            /\ UNCHANGED <<entry, temp, answer>>
  /\ UNCHANGED <<body, open, met>>

\* A run is killed.
Kill(p) ==
  /\ \E t \in Task : ProcessOf[t] = p /\ pc[t] \notin Ended
  /\ pc' = [t \in Task |-> IF ProcessOf[t] = p /\ pc[t] \notin Ended THEN "killed" ELSE pc[t]]
  /\ UNCHANGED <<files, open, answer, met>>

----------------------------------------------------------------------------
Complete(t) ==
  Look(t) \/ Read(t) \/ Drop(t) \/ Ask(t) \/ Open(t) \/ Write(t) \/ Rename(t)

Next == (\E t \in Task : Complete(t)) \/ (\E p \in Process : Kill(p))

Spec == Init /\ [][Next]_vars

----------------------------------------------------------------------------
(* Properties *)

\* A replayed answer was given to this very question, and so is every answer waiting on
\* disk, whoever wrote the files, in whatever order, killed where (the module's docstring:
\* "a cache hit means this identical question was already asked of this identical model").
SameQuestion ==
  /\ \A t \in Task : answer[t] # None => QuestionOf(answer[t]) = KeyOf[t]
  /\ \A k \in Key : entry[k] # None /\ body[entry[k]] \in Answers
                      => QuestionOf(body[entry[k]]) = k

\* An entry is half-written only where two tasks were writing its answer at one time.  Writers
\* that come one after the other leave the old entry or the new one, wherever the first was
\* killed and whatever it left under the temporary name the next one takes up.
TornByTwoWriters == \A k \in Key : entry[k] # None /\ body[entry[k]] = "torn" => met[k]

----------------------------------------------------------------------------
(* A statement of the repository that the code does not keep *)

\* evals/cache.py complete: "never a half-written file for the next run to trip on".
NeverHalfWritten == \A k \in Key : entry[k] # None => body[entry[k]] # "torn"
=============================================================================
