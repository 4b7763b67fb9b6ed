-------------------------- MODULE ResponseCacheProofs --------------------------
(***************************************************************************)
(* What holds of ResponseCache for any number of runs, tasks and           *)
(* questions.  A file carries one question from the moment it is created,  *)
(* under whatever names it goes and whoever writes to it; and as long as   *)
(* the writers of a question come one after the other, the temporary file  *)
(* is the writer's own and never the entry.                                *)
(***************************************************************************)
EXTENDS ResponseCache, TLAPS

Unopened == {"new", "reading", "dropping", "asking", "opening"}

\* Every name, every open file, every body and every answer keeps to its question.
AboutItsQuestion ==
  /\ \A k \in Key : /\ entry[k] # None => QuestionOf(entry[k]) = k
                    /\ temp[k] # None => QuestionOf(temp[k]) = k
  /\ \A t \in Task : open[t] # None => QuestionOf(open[t]) = KeyOf[t]
  /\ \A f \in File : body[f] \in Answers => QuestionOf(body[f]) = QuestionOf(f)
  /\ \A t \in Task : answer[t] # None => QuestionOf(answer[t]) = KeyOf[t]

\* A task has a file open from its opening on; temporary files are tasks' files.
FilesAreOpened ==
  /\ \A t \in Task : /\ pc[t] \in Unopened => open[t] = None
                     /\ pc[t] \in Opened => open[t] # None
                     /\ open[t] \in Task \union {None}
  /\ \A k \in Key : temp[k] \in Task \union {None}

QInv == TypeOK /\ AboutItsQuestion /\ FilesAreOpened

\* A file of a task, wherever it is found, was opened by that task.
CreatorsOpened ==
  \A f \in Task :
    \/ open[f] = f
    \/ /\ \A k \in Key : temp[k] # f /\ entry[k] # f
       /\ \A t \in Task : open[t] # f

\* Two tasks that write the answer to one question at a time have met.
WritersMeet ==
  \A s, t \in Task :
    s # t /\ KeyOf[s] = KeyOf[t] /\ pc[s] \in Opened /\ pc[t] \in Opened => met[KeyOf[t]]

\* Unmet, a writer has the temporary file to itself, torn until it has written it.
SoloWriter ==
  \A t \in Task :
    ~met[KeyOf[t]] /\ pc[t] \in Opened =>
      /\ temp[KeyOf[t]] = open[t]
      /\ body[open[t]] = "torn" <=> pc[t] = "writing"

\* Unmet, the entry is whole, and not the file the next writer will open.
EntryStandsApart ==
  \A k \in Key : ~met[k] /\ entry[k] # None => body[entry[k]] # "torn" /\ entry[k] # temp[k]

WInv == QInv /\ CreatorsOpened /\ WritersMeet /\ SoloWriter /\ EntryStandsApart

----------------------------------------------------------------------------
(* The question of a file. *)

\* The types and the questions hold of every directory an earlier run can leave.
LEMMA InitQ == Init => QInv
<1> SUFFICES ASSUME Init PROVE QInv
  OBVIOUS
<1> USE CacheAssumption DEF Init
<1>1. TypeOK
  BY DEF TypeOK, File, Answers, Places, Opened, Ended
<1>2. AboutItsQuestion
  BY DEF AboutItsQuestion, QuestionOf, File, Answers
<1>3. FilesAreOpened
  BY DEF FilesAreOpened, Opened, Unopened
<1> QED
  BY <1>1, <1>2, <1>3 DEF QInv

\* A file just opened is a task's, and carries the question of the task that opened it.
LEMMA OpenedFile ==
  ASSUME QInv, NEW t \in Task, Open(t)
  PROVE \E f \in Task :
          /\ f = IF temp[KeyOf[t]] = None THEN t ELSE temp[KeyOf[t]]
          /\ QuestionOf(f) = KeyOf[t]
          /\ open' = [open EXCEPT ![t] = f]
          /\ temp' = [temp EXCEPT ![KeyOf[t]] = f]
          /\ body' = [body EXCEPT ![f] = "torn"]
<1> USE CacheAssumption
<1> DEFINE f == IF temp[KeyOf[t]] = None THEN t ELSE temp[KeyOf[t]]
<1>1. f \in Task /\ QuestionOf(f) = KeyOf[t]
  BY DEF QInv, FilesAreOpened, AboutItsQuestion, QuestionOf
<1> QED
  BY <1>1 DEF Open, TempName

\* Every step keeps the types.
LEMMA TypeStep == QInv /\ [Next]_vars => TypeOK'
<1> SUFFICES ASSUME QInv, [Next]_vars PROVE TypeOK'
  OBVIOUS
<1> TypeOK
  BY DEF QInv
<1> USE CacheAssumption DEF TypeOK, Places, Opened, Ended, files, Goto, Return, File, Answers
<1>1. ASSUME NEW t \in Task, Look(t) PROVE TypeOK'
  BY <1>1 DEF Look
<1>2. ASSUME NEW t \in Task, Read(t) PROVE TypeOK'
  BY <1>2 DEF Read
<1>3. ASSUME NEW t \in Task, Drop(t) PROVE TypeOK'
  BY <1>3 DEF Drop
<1>4. ASSUME NEW t \in Task, Ask(t) PROVE TypeOK'
  BY <1>4 DEF Ask
<1>5. ASSUME NEW t \in Task, Open(t) PROVE TypeOK'
  <2>1. pc' \in [Task -> Places] /\ UNCHANGED <<entry, answer>>
    BY <1>5 DEF Open
  <2>2. met' \in [Key -> BOOLEAN]
    BY <1>5 DEF Open, Meet
  <2> QED
    BY <1>5, <2>1, <2>2, OpenedFile
<1>6. ASSUME NEW t \in Task, Write(t) PROVE TypeOK'
  <2>1. open[t] \in File
    BY <1>6 DEF Write, QInv, FilesAreOpened, Opened
  <2> QED
    BY <1>6, <2>1 DEF Write
<1>7. ASSUME NEW t \in Task, Rename(t) PROVE TypeOK'
  BY <1>7 DEF Rename, TempName
<1>8. ASSUME NEW p \in Process, Kill(p) PROVE TypeOK'
  BY <1>8 DEF Kill
<1>9. CASE UNCHANGED vars
  BY <1>9 DEF vars
<1> QED
  BY <1>1, <1>2, <1>3, <1>4, <1>5, <1>6, <1>7, <1>8, <1>9 DEF Next, Complete

\* Every step keeps the files opened by those who write to them.
LEMMA OpenedStep == QInv /\ [Next]_vars => FilesAreOpened'
<1> SUFFICES ASSUME QInv, [Next]_vars PROVE FilesAreOpened'
  OBVIOUS
<1> TypeOK /\ FilesAreOpened
  BY DEF QInv
<1> USE CacheAssumption
    DEF TypeOK, Places, Ended, files, Goto, Return, FilesAreOpened, Opened, Unopened
<1>1. ASSUME NEW t \in Task, Look(t) \/ Read(t) \/ Drop(t) \/ Ask(t) PROVE FilesAreOpened'
  BY <1>1 DEF Look, Read, Drop, Ask
<1>2. ASSUME NEW t \in Task, Open(t) PROVE FilesAreOpened'
  <2>1. pc[t] = "opening" /\ pc' = [pc EXCEPT ![t] = "writing"]
    BY <1>2 DEF Open
  <2> QED
    BY <1>2, <2>1, OpenedFile
<1>3. ASSUME NEW t \in Task, Write(t) PROVE FilesAreOpened'
  BY <1>3 DEF Write
<1>4. ASSUME NEW t \in Task, Rename(t) PROVE FilesAreOpened'
  BY <1>4 DEF Rename, TempName
<1>5. ASSUME NEW p \in Process, Kill(p) PROVE FilesAreOpened'
  BY <1>5 DEF Kill
<1>6. CASE UNCHANGED vars
  BY <1>6 DEF vars
<1> QED
  BY <1>1, <1>2, <1>3, <1>4, <1>5, <1>6 DEF Next, Complete

\* No step gives a file, a name or a caller an answer to another question.
LEMMA QuestionStep == QInv /\ [Next]_vars => AboutItsQuestion'
<1> SUFFICES ASSUME QInv, [Next]_vars PROVE AboutItsQuestion'
  OBVIOUS
<1> TypeOK /\ AboutItsQuestion
  BY DEF QInv
<1> USE CacheAssumption DEF TypeOK, files, Goto, Return, AboutItsQuestion, QuestionOf
<1>1. ASSUME NEW t \in Task, Look(t) \/ Drop(t) PROVE AboutItsQuestion'
  BY <1>1 DEF Look, Drop
<1>2. ASSUME NEW t \in Task, Read(t) PROVE AboutItsQuestion'
  BY <1>2 DEF Read
<1>3. ASSUME NEW t \in Task, Ask(t) PROVE AboutItsQuestion'
  BY <1>3 DEF Ask
<1>4. ASSUME NEW t \in Task, Open(t) PROVE AboutItsQuestion'
  <2> HIDE DEF QuestionOf
  <2>1. UNCHANGED <<entry, answer>>
    BY <1>4 DEF Open
  <2>2. "torn" \notin Answers
    BY DEF Answers
  <2> QED
    BY <1>4, <2>1, <2>2, OpenedFile DEF File
<1>5. ASSUME NEW t \in Task, Write(t) PROVE AboutItsQuestion'
  <2>1. open[t] # None /\ QuestionOf(open[t]) = KeyOf[t] /\ QuestionOf(t) = KeyOf[t]
    BY <1>5 DEF Write, QInv, FilesAreOpened, Opened
  <2>2. "torn" \notin Answers
    BY DEF Answers
  <2> HIDE DEF QuestionOf
  <2> QED
    BY <1>5, <2>1, <2>2 DEF Write
<1>6. ASSUME NEW t \in Task, Rename(t) PROVE AboutItsQuestion'
  BY <1>6 DEF Rename, TempName
<1>7. ASSUME NEW p \in Process, Kill(p) PROVE AboutItsQuestion'
  BY <1>7 DEF Kill
<1>8. CASE UNCHANGED vars
  BY <1>8 DEF vars
<1> QED
  BY <1>1, <1>2, <1>3, <1>4, <1>5, <1>6, <1>7, <1>8 DEF Next, Complete

\* The types, the questions and the open files hold together.
THEOREM QuestionsKept == Spec => []QInv
<1>1. QInv /\ [Next]_vars => QInv'
  BY TypeStep, OpenedStep, QuestionStep DEF QInv
<1> QED
  BY <1>1, InitQ, PTL DEF Spec

\* A cache hit answers the question that was asked, whoever wrote the files.
THEOREM HitsAreForTheQuestion == Spec => []SameQuestion
<1>1. QInv => SameQuestion
  BY DEF QInv, AboutItsQuestion, SameQuestion, TypeOK
<1> QED
  BY <1>1, QuestionsKept, PTL

----------------------------------------------------------------------------
(* The writers of a file. *)

\* The directory an earlier run leaves has no torn entry, no temporary and no open file.
LEMMA InitW == Init => WInv
<1> SUFFICES ASSUME Init PROVE WInv
  OBVIOUS
<1>1. CreatorsOpened /\ WritersMeet /\ SoloWriter /\ EntryStandsApart
  BY CacheAssumption
  DEF Init, CreatorsOpened, WritersMeet, SoloWriter, EntryStandsApart, Opened, File
<1> QED
  BY <1>1, InitQ DEF WInv

\* An opening leaves the invariant: unmet, there is no other writer, and the file opened is the
\* opener's own or one that a writer before it left behind.
LEMMA OpenKeepsW ==
  ASSUME WInv, NEW t \in Task, Open(t), QInv'
  PROVE WInv'
<1> DEFINE k == KeyOf[t]
<1>1. PICK f \in Task : /\ f = IF temp[k] = None THEN t ELSE temp[k]
                        /\ QuestionOf(f) = k
                        /\ open' = [open EXCEPT ![t] = f]
                        /\ temp' = [temp EXCEPT ![k] = f]
                        /\ body' = [body EXCEPT ![f] = "torn"]
  BY OpenedFile DEF WInv
<1>2. /\ pc[t] = "opening" /\ pc' = [pc EXCEPT ![t] = "writing"]
      /\ open[t] = None /\ UNCHANGED <<entry, answer>>
  BY DEF Open, Goto, WInv, QInv, FilesAreOpened, Unopened
<1>3. TypeOK /\ k \in Key /\ KeyOf[f] = k /\ f \in File /\ \A s \in Task : KeyOf[s] \in Key
  BY <1>1, CacheAssumption DEF WInv, QInv, QuestionOf, File
<1>4. t # None /\ f # None
  BY CacheAssumption
<1>5. f = t \/ (f # t /\ open[f] = f)
  BY <1>1, <1>2, <1>3 DEF WInv, CreatorsOpened
<1>6. met' = [met EXCEPT ![k] = @ \/ \E s \in Task \ {t} : KeyOf[s] = k /\ pc[s] \in Opened]
  BY DEF Open, Meet
<1>7. /\ \A j \in Key : ~met'[j] => ~met[j]
      /\ ~met'[k] => \A s \in Task \ {t} : KeyOf[s] = k => pc[s] \notin Opened
  BY <1>3, <1>6 DEF TypeOK
<1>8. CreatorsOpened'
  <2> SUFFICES ASSUME NEW g \in Task, open'[g] # g
               PROVE /\ \A j \in Key : temp'[j] # g /\ entry[j] # g
                     /\ \A s \in Task : open'[s] # g
    BY <1>2 DEF CreatorsOpened
  <2>1. /\ \A j \in Key : temp'[j] = IF j = k THEN f ELSE temp[j]
        /\ \A s \in Task : open'[s] = IF s = t THEN f ELSE open[s]
    BY <1>1, <1>3 DEF TypeOK
  <2>2. g # f /\ open[g] # g
    BY <2>1, <1>2, <1>4, <1>5
  <2>3. /\ \A j \in Key : temp[j] # g /\ entry[j] # g
        /\ \A s \in Task : open[s] # g
    BY <2>2 DEF WInv, CreatorsOpened
  <2> QED
    BY <2>1, <2>2, <2>3
<1>9. WritersMeet'
  <2> SUFFICES ASSUME NEW r \in Task, NEW s \in Task, r # s, KeyOf[r] = KeyOf[s],
                      pc'[r] \in Opened, pc'[s] \in Opened, ~met'[KeyOf[s]]
               PROVE FALSE
    BY DEF WritersMeet
  <2>1. CASE r # t /\ s # t
    BY <1>2, <1>3, <1>7, <2>1 DEF WInv, WritersMeet, TypeOK
  <2>2. CASE r = t \/ s = t
    BY <1>2, <1>3, <1>7, <2>2 DEF TypeOK
  <2> QED
    BY <2>1, <2>2
<1>10. SoloWriter'
  <2> SUFFICES ASSUME NEW s \in Task, ~met'[KeyOf[s]], pc'[s] \in Opened
               PROVE /\ temp'[KeyOf[s]] = open'[s]
                     /\ body'[open'[s]] = "torn" <=> pc'[s] = "writing"
    BY DEF SoloWriter
  <2>1. CASE s = t
    BY <1>1, <1>2, <1>3, <2>1 DEF TypeOK
  <2>2. CASE s # t
    <3>1. pc[s] \in Opened /\ pc'[s] = pc[s] /\ KeyOf[s] \in Key /\ KeyOf[s] # k
      BY <1>2, <1>3, <1>7, <2>2 DEF TypeOK
    <3>2. open[s] # None /\ open[s] # f
      BY <1>1, <3>1 DEF WInv, QInv, FilesAreOpened, AboutItsQuestion
    <3>3. temp'[KeyOf[s]] = temp[KeyOf[s]] /\ open'[s] = open[s] /\ body'[open[s]] = body[open[s]]
      BY <1>1, <1>3, <2>2, <3>1, <3>2 DEF TypeOK
    <3>4. ~met[KeyOf[s]]
      BY <1>7, <3>1
    <3> QED
      BY <3>1, <3>3, <3>4 DEF WInv, SoloWriter
  <2> QED
    BY <2>1, <2>2
<1>11. EntryStandsApart'
  <2> SUFFICES ASSUME NEW j \in Key, ~met'[j], entry[j] # None
               PROVE body'[entry[j]] # "torn" /\ entry[j] # temp'[j]
    BY <1>2 DEF EntryStandsApart
  <2>1. body[entry[j]] # "torn" /\ entry[j] # temp[j] /\ entry[j] \in File
    BY <1>3, <1>7 DEF WInv, EntryStandsApart, TypeOK
  <2>2. entry[j] # f
    <3>1. CASE j = k /\ f = t
      BY <1>2, <1>4, <3>1 DEF WInv, CreatorsOpened
    <3>2. CASE j = k /\ f # t
      BY <1>1, <2>1, <3>2
    <3>3. CASE j # k
      BY <1>1, <3>3 DEF WInv, QInv, AboutItsQuestion
    <3> QED
      BY <3>1, <3>2, <3>3
  <2> QED
    BY <1>1, <1>3, <2>1, <2>2 DEF TypeOK
<1> QED
  BY <1>8, <1>9, <1>10, <1>11 DEF WInv

\* A write leaves the invariant: unmet, a task writes once to the file it found torn, and that
\* file is not the entry.
LEMMA WriteKeepsW ==
  ASSUME WInv, NEW t \in Task, Write(t), QInv'
  PROVE WInv'
<1> DEFINE f == open[t]
           k == KeyOf[t]
<1>1. /\ pc[t] = "writing" /\ pc' = [pc EXCEPT ![t] = "renaming"]
      /\ UNCHANGED <<entry, temp, open, answer, met>>
  BY DEF Write, Goto
<1>2. /\ f \in Task /\ f # None /\ QuestionOf(f) = k /\ k \in Key /\ f \in File
      /\ \A s \in Task : KeyOf[s] \in Key
  BY <1>1, CacheAssumption DEF WInv, QInv, FilesAreOpened, AboutItsQuestion, Opened, File
<1>3. ~met[k] => temp[k] = f /\ body' = [body EXCEPT ![f] = t]
  BY <1>1 DEF Write, WInv, SoloWriter, Opened
<1>4. \A g \in File \ {f} : body'[g] = body[g]
  BY DEF Write, WInv, QInv, TypeOK
<1>5. t # "torn"
  BY CacheAssumption
<1>6. TypeOK
  BY DEF WInv, QInv
<1>7. CreatorsOpened'
  BY <1>1 DEF WInv, CreatorsOpened
<1>8. WritersMeet'
  BY <1>1, <1>6 DEF WInv, WritersMeet, TypeOK, Opened
<1>9. SoloWriter'
  <2> SUFFICES ASSUME NEW s \in Task, ~met[KeyOf[s]], pc'[s] \in Opened
               PROVE /\ temp[KeyOf[s]] = open[s]
                     /\ body'[open[s]] = "torn" <=> pc'[s] = "writing"
    BY <1>1 DEF SoloWriter
  <2>1. pc[s] \in Opened /\ (s # t => pc'[s] = pc[s])
    BY <1>1, <1>6 DEF TypeOK, Opened
  <2>2. temp[KeyOf[s]] = open[s] /\ (body[open[s]] = "torn" <=> pc[s] = "writing")
    BY <2>1 DEF WInv, SoloWriter
  <2>3. CASE s = t
    BY <1>1, <1>2, <1>3, <1>5, <1>6, <2>2, <2>3 DEF TypeOK
  <2>4. CASE s # t
    <3>1. KeyOf[s] # k
      BY <1>1, <2>1, <2>4 DEF WInv, WritersMeet, Opened
    <3>2. open[s] # None /\ open[s] # f /\ open[s] \in File
      BY <1>2, <1>6, <2>1, <3>1 DEF WInv, QInv, FilesAreOpened, AboutItsQuestion, TypeOK
    <3> QED
      BY <1>4, <2>1, <2>2, <2>4, <3>2
  <2> QED
    BY <2>3, <2>4
<1>10. EntryStandsApart'
  <2> SUFFICES ASSUME NEW j \in Key, ~met[j], entry[j] # None
               PROVE body'[entry[j]] # "torn" /\ entry[j] # temp[j]
    BY <1>1 DEF EntryStandsApart
  <2>1. body[entry[j]] # "torn" /\ entry[j] # temp[j] /\ entry[j] \in File
    BY <1>6 DEF WInv, EntryStandsApart, TypeOK
  <2>2. entry[j] # f
    <3>1. CASE j = k
      BY <1>3, <2>1, <3>1
    <3>2. CASE j # k
      BY <1>2, <3>2 DEF WInv, QInv, AboutItsQuestion
    <3> QED
      BY <3>1, <3>2
  <2> QED
    BY <1>4, <2>1, <2>2
<1> QED
  BY <1>7, <1>8, <1>9, <1>10 DEF WInv

\* A rename leaves the invariant: unmet, a task renames the file it wrote itself.
LEMMA RenameKeepsW ==
  ASSUME WInv, NEW t \in Task, Rename(t), QInv'
  PROVE WInv'
<1> DEFINE k == KeyOf[t]
<1>1. /\ pc[t] = "renaming" /\ UNCHANGED <<body, open, met>> /\ k \in Key /\ open[t] # None
      /\ TypeOK /\ \A s \in Task : KeyOf[s] \in Key
  BY CacheAssumption DEF Rename, WInv, QInv, FilesAreOpened, Opened
<1>2. \A s \in Task : pc'[s] \in Opened => pc'[s] = pc[s] /\ s # t
  BY <1>1 DEF Rename, Goto, Return, TypeOK, Opened
<1>3. \/ UNCHANGED <<entry, temp>>
      \/ /\ temp[k] # None
         /\ entry' = [entry EXCEPT ![k] = temp[k]]
         /\ temp' = [temp EXCEPT ![k] = None]
  BY DEF Rename, TempName
<1>4. CreatorsOpened'
  BY <1>1, <1>3, CacheAssumption DEF TypeOK, WInv, CreatorsOpened
<1>5. WritersMeet'
  BY <1>1, <1>2 DEF WInv, WritersMeet
<1>6. SoloWriter'
  <2> SUFFICES ASSUME NEW s \in Task, ~met[KeyOf[s]], pc'[s] \in Opened
               PROVE /\ temp'[KeyOf[s]] = open[s]
                     /\ body[open[s]] = "torn" <=> pc'[s] = "writing"
    BY <1>1 DEF SoloWriter
  <2>1. pc[s] \in Opened /\ pc'[s] = pc[s] /\ s # t
    BY <1>2
  <2>2. KeyOf[s] # k
    BY <1>1, <2>1 DEF WInv, WritersMeet, Opened
  <2>3. temp'[KeyOf[s]] = temp[KeyOf[s]]
    BY <1>1, <1>3, <2>2 DEF TypeOK
  <2> QED
    BY <2>1, <2>3 DEF WInv, SoloWriter
<1>7. EntryStandsApart'
  <2>1. ~met[k] => temp[k] = open[t] /\ body[temp[k]] # "torn"
    BY <1>1 DEF WInv, SoloWriter, Opened
  <2> QED
    BY <1>1, <1>3, <2>1 DEF WInv, EntryStandsApart, TypeOK
<1> QED
  BY <1>4, <1>5, <1>6, <1>7 DEF WInv

\* A step that neither writes nor names a file leaves the invariant.
LEMMA QuietKeepsW ==
  ASSUME WInv, QInv', UNCHANGED <<temp, body, open, met>>,
         \A k \in Key : entry'[k] \in {entry[k], None},
         \A t \in Task : pc'[t] \in Opened => pc'[t] = pc[t]
  PROVE WInv'
<1>1. CreatorsOpened'
  BY CacheAssumption DEF WInv, CreatorsOpened
<1>2. WritersMeet' /\ SoloWriter'
  BY CacheAssumption DEF WInv, WritersMeet, SoloWriter
<1>3. EntryStandsApart'
  BY DEF WInv, EntryStandsApart
<1> QED
  BY <1>1, <1>2, <1>3 DEF WInv

\* Files, their creators and their writers hold together.
THEOREM WritersKept == Spec => []WInv
<1>1. WInv /\ [Next]_vars => WInv'
  <2> SUFFICES ASSUME WInv, [Next]_vars PROVE WInv'
    OBVIOUS
  <2>1. QInv' /\ TypeOK
    BY TypeStep, OpenedStep, QuestionStep DEF WInv, QInv
  <2>2. ASSUME NEW t \in Task, Look(t) \/ Read(t) \/ Drop(t) \/ Ask(t) PROVE WInv'
    BY <2>1, <2>2, QuietKeepsW, CacheAssumption
    DEF Look, Read, Drop, Ask, Goto, Return, Opened, files, TypeOK
  <2>3. ASSUME NEW p \in Process, Kill(p) PROVE WInv'
    BY <2>1, <2>3, QuietKeepsW DEF Kill, Opened, files, TypeOK
  <2>4. CASE UNCHANGED vars
    BY <2>1, <2>4, QuietKeepsW DEF vars
  <2> QED
    BY <2>1, <2>2, <2>3, <2>4, OpenKeepsW, WriteKeepsW, RenameKeepsW DEF Next, Complete
<1> QED
  BY <1>1, InitW, PTL DEF Spec

\* An entry is found half-written only where two tasks were writing its answer at one time:
\* a killed run leaves nothing that one after it could trip on, though it takes up the
\* temporary file.
THEOREM TornEntriesHadTwoWriters == Spec => []TornByTwoWriters
<1>1. WInv => TornByTwoWriters
  BY DEF WInv, QInv, TypeOK, EntryStandsApart, TornByTwoWriters
<1> QED
  BY <1>1, WritersKept, PTL
=============================================================================
