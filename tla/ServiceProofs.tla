---------------------------- MODULE ServiceProofs ----------------------------
(***************************************************************************)
(* Theorems about Service, for any files, contents and number of mishaps.  *)
(***************************************************************************)
EXTENDS Service, TLAPS

(* No name has a dot of its own. *)
Undotted == \A n \in Names : Len(n) = 1

Texts == Contents \cup Unreadable \cup {None}
Queued == [path : Names, content : Contents]
Applying == pc \in {"apply", "mark"}

(* What the service knows in each of its stages. *)
Stages == /\ pc # "scan" => entries = {} /\ found = {} /\ marks = {}
          /\ pc \in {"idle", "scan"} => queue = {}
          /\ pc # "idle" => mode # "broken"

LEMMA ContentFacts ==
  /\ \A c \in Texts : c \notin Unreadable \cup {None} => c \in Contents
  /\ \A c \in Texts \cup {Torn} :
       c \notin Unreadable \cup {None} => c \in Contents \cup {Torn}
  /\ None \notin Contents /\ MaxMishaps \in Nat
  /\ \A n \in Names : PathOf(n) \in Names
BY ServiceAssumption DEF Texts

LEMMA UndottedPaths == Undotted => \A n \in Names : PathOf(n) = n
<1>. SUFFICES ASSUME Undotted, NEW n \in Names PROVE PathOf(n) = n
  OBVIOUS
<1>1. ~(Len(n) > 1)
  BY DEF Undotted
<1>. QED
  BY <1>1, Zenon DEF PathOf

-----------------------------------------------------------------------------
(* Types.                                                                  *)

LEMMA TypeInit == Init => TypeOK /\ Stages
BY ServiceAssumption DEF Init, TypeOK, Stages, File

LEMMA TypeStep == TypeOK /\ Stages /\ [Next]_vars => TypeOK' /\ Stages'
<1>. SUFFICES ASSUME TypeOK, Stages, [Next]_vars PROVE TypeOK' /\ Stages'
  OBVIOUS
<1>. USE DEF files, scan, history
<1>0. Exit => /\ pc' = "idle" /\ entries' = {} /\ found' = {} /\ marks' = {}
              /\ queue' = {}
  BY DEF Exit
<1>1. CASE Start
  BY <1>1 DEF Start, TypeOK, Stages
<1>2. ASSUME NEW e \in entries, Scan(e) PROVE TypeOK' /\ Stages'
  <2>. DEFINE content == IF e[1] = "yml" THEN yml[e[2]] ELSE applied[e[2]]
              file == [name |-> e[2], content |-> content]
  <2>1. e[2] \in Names /\ e[1] \in {"yml", "applied"}
    BY DEF TypeOK
  <2>2. CASE Exit
    BY <1>0, <1>2, <2>2 DEF Scan, TypeOK, Stages
  <2>3. CASE ~Exit
    <3>1. /\ content \notin Unreadable \cup {None}
          /\ pc = "scan" /\ pc' = "scan" /\ entries' = entries \ {e}
          /\ \/ e[1] = "yml" /\ found' = found \cup {file} /\ UNCHANGED marks
             \/ e[1] # "yml" /\ marks' = marks \cup {file} /\ UNCHANGED found
          /\ UNCHANGED <<queue, current, opened, mode, yml, applied, mishaps,
                         raced, ever, times>>
      BY <1>2, <2>3 DEF Scan
    <3>2. e[1] = "yml" => file \in File
      <4>1. e[1] = "yml" => content \in Contents
        BY <2>1, <3>1, ContentFacts DEF TypeOK, Texts
      <4>. QED
        BY <2>1, <4>1 DEF File
    <3>3. e[1] # "yml" => file.name \in Names /\ file.content \in Contents \cup {Torn}
      BY <2>1, <3>1, ContentFacts DEF TypeOK, Texts
    <3>. QED
      BY <3>1, <3>2, <3>3 DEF TypeOK, Stages
  <2>. QED
    BY <2>2, <2>3
<1>3. CASE Collect
  <2>1. queue' \subseteq Queued
    BY <1>3, ContentFacts DEF Collect, TypeOK, File, Queued
  <2>. QED
    BY <1>3, <2>1 DEF Collect, TypeOK, Stages, Queued
<1>4. CASE Open
  <2>1. PICK f \in queue :
          /\ queue' = queue \ {f}
          /\ \/ UNCHANGED <<pc, current, opened>>
             \/ /\ yml[f.path] \notin Unreadable \cup {None}
                /\ pc' = "apply" /\ current' = f /\ opened' = yml[f.path]
    BY <1>4 DEF Open
  <2>2. f.path \in Names /\ yml[f.path] \in Texts /\ f \in Queued
    BY DEF TypeOK, Texts, Queued
  <2>. QED
    BY <1>4, <2>1, <2>2, ContentFacts DEF Open, TypeOK, Stages, Queued
<1>5. CASE Finish
  BY <1>0, <1>5 DEF Finish, TypeOK, Stages
<1>6. CASE Apply
  <2>1. current.path \in Names /\ opened \in Contents
    BY <1>6 DEF Apply, TypeOK
  <2>2. ever' \in [Names -> SUBSET Contents] /\ times' \in [Names -> Nat]
    BY <1>6, <2>1 DEF Apply, TypeOK
  <2>3. mishaps' \in 0..MaxMishaps
    BY <1>6, ContentFacts DEF Apply, TypeOK
  <2>. QED
    BY <1>6, <2>2, <2>3 DEF Apply, TypeOK, Stages
<1>7. CASE Mark
  <2>1. current.path \in Names /\ current.content \in Contents
    BY <1>7 DEF Mark, TypeOK
  <2>2. /\ yml' \in [Names -> Contents \cup Unreadable \cup {None}]
        /\ applied' \in [Names -> Contents \cup Unreadable \cup {None, Torn}]
    BY <1>7, <2>1 DEF Mark, TypeOK
  <2>3. mishaps' \in 0..MaxMishaps
    BY <1>7, ContentFacts DEF Mark, TypeOK
  <2>. QED
    BY <1>7, <2>2, <2>3 DEF Mark, TypeOK, Stages
<1>8. CASE Crash
  <2>1. applied' \in [Names -> Contents \cup Unreadable \cup {None, Torn}]
    BY <1>8 DEF Crash, TypeOK
  <2>2. mishaps' \in 0..MaxMishaps
    BY <1>8, ContentFacts DEF Crash, TypeOK
  <2>. QED
    BY <1>0, <1>8, <2>1, <2>2 DEF Crash, TypeOK, Stages
<1>9. ASSUME NEW n \in Names, NEW c \in Contents \cup Unreadable \cup {None},
             Edit(n, c)
      PROVE  TypeOK' /\ Stages'
  BY <1>9 DEF Edit, TypeOK, Stages
<1>10. ASSUME NEW m \in Modes, Configure(m) PROVE TypeOK' /\ Stages'
  BY <1>10 DEF Configure, TypeOK, Stages
<1>11. CASE UNCHANGED vars
  BY <1>11 DEF vars, TypeOK, Stages
<1>. QED
  BY <1>1, <1>2, <1>3, <1>4, <1>5, <1>6, <1>7, <1>8, <1>9, <1>10, <1>11
     DEF Next, Work

(* Every variable of the service keeps its type, with dots in the names or *)
(* without: nothing but text is queued, opened or applied.                 *)
THEOREM ServiceTypes == Spec => []TypeOK
BY TypeInit, TypeStep, PTL DEF Spec

-----------------------------------------------------------------------------
(* Marks.                                                                  *)

(* The inductive invariant behind MarkedWasApplied: what is read again for *)
(* the apply is what the file holds unless it is edited meanwhile, and,    *)
(* without dots, so is what the scan read; what is about to be marked was  *)
(* applied.                                                                *)
ReadAsIs == Applying /\ current.path \notin raced => opened = yml[current.path]
FoundAsIs == \A f \in found : f.name \notin raced => f.content = yml[f.name]
QueueAsIs == \A f \in queue : f.path \notin raced => f.content = yml[f.path]
CurrentAsIs ==
  Applying => /\ current \notin queue
              /\ current.path \notin raced => current.content = yml[current.path]
AppliedFirst == pc = "mark" => opened \in ever[current.path]

MarkInv ==
  /\ ReadAsIs /\ AppliedFirst /\ MarkedWasApplied
  /\ Undotted => FoundAsIs /\ QueueAsIs /\ CurrentAsIs

(* A step that leaves the files and the history alone. *)
LEMMA MarksStay ==
  ASSUME TypeOK, MarkInv, UNCHANGED <<yml, applied, raced, ever>>
  PROVE  MarkedWasApplied'
BY DEF MarkInv, MarkedWasApplied

(* The process ends: there is nothing left to apply. *)
LEMMA ExitMarks ==
  ASSUME Exit, MarkedWasApplied' PROVE MarkInv'
BY DEF Exit, MarkInv, ReadAsIs, AppliedFirst, FoundAsIs, QueueAsIs,
       CurrentAsIs, Applying

LEMMA MarkStep ==
  ASSUME Undotted \/ "keep" \notin Modes,
         TypeOK, Stages, MarkInv, [Next]_vars
  PROVE  MarkInv'
<1>. USE DEF files, scan, history
<1>1. CASE Start
  BY <1>1, MarksStay DEF Start, MarkInv, ReadAsIs, AppliedFirst, FoundAsIs,
        QueueAsIs, CurrentAsIs, Applying
<1>2. ASSUME NEW e \in entries, Scan(e) PROVE MarkInv'
  <2>1. MarkedWasApplied'
    BY <1>2, MarksStay DEF Scan
  <2>2. CASE ~Exit
    <3>1. /\ pc = "scan" /\ pc' = "scan"
          /\ UNCHANGED <<queue, yml, raced>>
          /\ \/ found' = found \cup {[name |-> e[2], content |-> yml[e[2]]]}
             \/ UNCHANGED found
      BY <1>2, <2>2 DEF Scan
    <3>2. Undotted => FoundAsIs'
      BY <3>1 DEF MarkInv, FoundAsIs
    <3>. QED
      BY <2>1, <3>1, <3>2
         DEF MarkInv, ReadAsIs, AppliedFirst, QueueAsIs, CurrentAsIs, Applying
  <2>. QED
    BY <2>1, <2>2, ExitMarks
<1>3. CASE Collect
  <2>1. Undotted => QueueAsIs'
    <3>. SUFFICES ASSUME Undotted, NEW f \in found
                  PROVE  PathOf(f.name) \notin raced =>
                           f.content = yml[PathOf(f.name)]
      BY <1>3 DEF Collect, QueueAsIs
    <3>1. f.name \in Names /\ PathOf(f.name) = f.name
      BY UndottedPaths DEF TypeOK, File
    <3>. QED
      BY <3>1 DEF MarkInv, FoundAsIs
  <2>. QED
    BY <1>3, <2>1, MarksStay
       DEF Collect, MarkInv, ReadAsIs, AppliedFirst, FoundAsIs, CurrentAsIs,
           Applying
<1>4. CASE Open
  <2>1. PICK f \in queue :
          /\ queue' = queue \ {f}
          /\ \/ UNCHANGED <<pc, current, opened>>
             \/ pc' = "apply" /\ current' = f /\ opened' = yml[f.path]
    BY <1>4 DEF Open
  <2>2. /\ pc = "next"
        /\ UNCHANGED <<found, yml, applied, raced, ever>>
    BY <1>4 DEF Open
  <2>3. ReadAsIs' /\ AppliedFirst'
    BY <2>1, <2>2 DEF MarkInv, ReadAsIs, AppliedFirst, Applying
  <2>4. Undotted => FoundAsIs' /\ QueueAsIs' /\ CurrentAsIs'
    BY <2>1, <2>2 DEF MarkInv, FoundAsIs, QueueAsIs, CurrentAsIs, Applying
  <2>. QED
    BY <2>2, <2>3, <2>4, MarksStay DEF MarkInv
<1>5. CASE Finish
  BY <1>5, MarksStay, ExitMarks DEF Finish
<1>6. CASE Apply
  <2>1. /\ pc = "apply" /\ pc' \in {"mark", "next"} /\ current.path \in Names
        /\ UNCHANGED <<yml, applied, found, queue, current, opened, raced>>
    BY <1>6 DEF Apply, TypeOK
  <2>2. \A n \in Names : ever[n] \subseteq ever'[n]
    BY <1>6, <2>1 DEF Apply, TypeOK
  <2>3. AppliedFirst'
    BY <1>6, <2>1 DEF Apply, AppliedFirst, TypeOK
  <2>4. MarkedWasApplied'
    BY <2>1, <2>2 DEF MarkInv, MarkedWasApplied
  <2>. QED
    BY <2>1, <2>3, <2>4
       DEF MarkInv, ReadAsIs, FoundAsIs, QueueAsIs, CurrentAsIs, Applying
<1>7. CASE Mark
  <2>1. /\ pc = "mark" /\ pc' = "next" /\ found = {} /\ found' = {}
        /\ UNCHANGED <<queue, current, raced, ever>>
        /\ current.path \in Names /\ current.content \in Contents
    BY <1>7 DEF Mark, TypeOK, Stages
  <2>2. ASSUME current.path \notin raced
        PROVE  /\ yml[current.path] \in ever[current.path]
               /\ Undotted => current.content \in ever[current.path]
    BY <2>1, <2>2
       DEF MarkInv, ReadAsIs, AppliedFirst, CurrentAsIs, Applying
  <2>3. mode = "keep" => Undotted
    BY DEF TypeOK
  <2>4. /\ \/ applied' = applied
           \/ applied' = [applied EXCEPT ![current.path] = yml[current.path]]
           \/ mode = "keep"
              /\ applied' = [applied EXCEPT ![current.path] = current.content]
        /\ \/ yml' = yml
           \/ yml' = [yml EXCEPT ![current.path] = None]
    BY <1>7 DEF Mark
  <2>5. MarkedWasApplied'
    BY <2>1, <2>2, <2>3, <2>4 DEF MarkInv, MarkedWasApplied, TypeOK
  <2>6. ASSUME Undotted, NEW f \in queue, f.path \notin raced
        PROVE  f.content = yml'[f.path]
    <3>1. f.content = yml[f.path] /\ f.path \in Names
      BY <2>6 DEF MarkInv, QueueAsIs, TypeOK
    <3>2. f.path # current.path
      <4>. SUFFICES ASSUME f.path = current.path PROVE f = current
        BY <2>1, <2>6 DEF MarkInv, CurrentAsIs, Applying
      <4>1. f.content = current.content
        BY <2>1, <2>6, <3>1 DEF MarkInv, CurrentAsIs, Applying
      <4>2. f \in Queued /\ current \in Queued
        BY <2>1 DEF TypeOK, Queued
      <4>. QED
        BY <4>1, <4>2 DEF Queued
    <3>. QED
      BY <2>1, <2>4, <3>1, <3>2 DEF TypeOK
  <2>. QED
    BY <2>1, <2>5, <2>6
       DEF MarkInv, ReadAsIs, AppliedFirst, FoundAsIs, QueueAsIs, CurrentAsIs,
           Applying
<1>8. CASE Crash
  <2>1. MarkedWasApplied'
    <3>1. pc = "mark" => current.path \in Names
      BY DEF TypeOK
    <3>. QED
      BY <1>8, <3>1, ServiceAssumption
         DEF Crash, MarkInv, MarkedWasApplied, TypeOK
  <2>. QED
    BY <1>8, <2>1, ExitMarks DEF Crash
<1>9. ASSUME NEW n \in Names, NEW c \in Texts, Edit(n, c) PROVE MarkInv'
  <2>1. /\ yml' = [yml EXCEPT ![n] = c]
        /\ raced' = IF pc = "idle" THEN raced ELSE raced \cup {n}
        /\ UNCHANGED <<pc, applied, found, queue, current, opened, ever>>
    BY <1>9 DEF Edit
  <2>2. MarkedWasApplied'
    BY <2>1 DEF MarkInv, MarkedWasApplied
  <2>3. CASE pc = "idle"
    BY <2>1, <2>2, <2>3
       DEF MarkInv, ReadAsIs, AppliedFirst, FoundAsIs, QueueAsIs, CurrentAsIs,
           Applying, Stages
  <2>4. CASE pc # "idle"
    <3>1. \A m : m \notin raced' => m \notin raced /\ m # n
      BY <2>1, <2>4
    <3>2. \A m \in Names : m # n => yml'[m] = yml[m]
      BY <2>1 DEF TypeOK
    <3>3. ReadAsIs' /\ AppliedFirst'
      BY <2>1, <3>1, <3>2
         DEF MarkInv, ReadAsIs, AppliedFirst, Applying, TypeOK
    <3>4. Undotted => FoundAsIs'
      BY <2>1, <3>1, <3>2 DEF MarkInv, FoundAsIs, TypeOK, File
    <3>5. Undotted => QueueAsIs'
      BY <2>1, <3>1, <3>2 DEF MarkInv, QueueAsIs, TypeOK
    <3>6. Undotted => CurrentAsIs'
      BY <2>1, <3>1, <3>2 DEF MarkInv, CurrentAsIs, Applying, TypeOK
    <3>. QED
      BY <2>2, <3>3, <3>4, <3>5, <3>6 DEF MarkInv
  <2>. QED
    BY <2>3, <2>4
<1>10. ASSUME NEW m \in Modes, Configure(m) PROVE MarkInv'
  BY <1>10, MarksStay
     DEF Configure, MarkInv, ReadAsIs, AppliedFirst, FoundAsIs, QueueAsIs,
         CurrentAsIs, Applying
<1>11. CASE UNCHANGED vars
  BY <1>11, MarksStay
     DEF vars, MarkInv, ReadAsIs, AppliedFirst, FoundAsIs, QueueAsIs,
         CurrentAsIs, Applying
<1>. QED
  BY <1>1, <1>2, <1>3, <1>4, <1>5, <1>6, <1>7, <1>8, <1>9, <1>10, <1>11
     DEF Next, Work, Texts

(* Whatever crashes, fails or is torn, a .applied file holds what was      *)
(* applied unless the .yml file was edited under the running service, for  *)
(* names without dots of their own, or if files are renamed only.          *)
THEOREM MarksAreOfWhatWasApplied ==
  ASSUME Undotted \/ "keep" \notin Modes PROVE Spec => []MarkedWasApplied
<1>1. Init => MarkInv
  BY ServiceAssumption
     DEF Init, MarkInv, ReadAsIs, AppliedFirst, FoundAsIs, QueueAsIs,
         CurrentAsIs, Applying, MarkedWasApplied
<1>2. TypeOK /\ Stages /\ MarkInv /\ [Next]_vars => MarkInv'
  BY MarkStep
<1>3. MarkInv => MarkedWasApplied
  BY DEF MarkInv
<1>. QED
  BY <1>1, <1>2, <1>3, TypeInit, TypeStep, PTL DEF Spec

-----------------------------------------------------------------------------
(* How often a file is applied.                                            *)

(* The applications of n that mishaps and edits account for. *)
Excuses(n) == mishaps + IF n \in raced THEN 1 ELSE 0

(* The service will not apply the file as it is. *)
Done(n) == yml[n] = None \/ (mode = "keep" /\ applied[n] = yml[n])

(* The inductive invariant behind AppliedOnce.  Each file is read, queued  *)
(* and applied once in a run.                                              *)
OncePerRun ==
  /\ \A f \in found : <<"yml", f.name>> \notin entries
  /\ \A f, g \in found : f.name = g.name => f = g
  /\ \A f, g \in queue : f.path = g.path => f = g
  /\ Applying => \A f \in queue : f.path # current.path

(* What is queued is not what the file holds only if the file was edited   *)
(* since, and then it was not applied since, or only in this run.          *)
Edited(n) == n \in raced /\ times[n] = 0
EditedSince ==
  /\ \A f \in found : f.content # yml[f.name] => Edited(f.name)
  /\ \A f \in queue : f.content # yml[f.path] => Edited(f.path)
  /\ pc = "apply" /\ current.content # yml[current.path] => Edited(current.path)
  /\ pc = "mark" /\ current.content # yml[current.path] =>
       current.path \in raced /\ times[current.path] <= 1

(* A file that is not done, or is queued, may be applied once more. *)
MayApply ==
  /\ \A n \in Names : times[n] <= 1 + Excuses(n)
  /\ \A n \in Names :
       ~Done(n) /\ ~(pc = "mark" /\ current.path = n) => times[n] <= Excuses(n)
  /\ \A f \in queue : times[f.path] <= Excuses(f.path)
  /\ pc = "apply" => times[current.path] <= Excuses(current.path)

(* One that is done by its mark is, or will be, found to be so. *)
MarksFound ==
  pc = "scan" /\ mode = "keep" =>
    \A n \in Names :
      times[n] > Excuses(n) /\ yml[n] # None =>
        \/ <<"applied", n>> \in entries
        \/ [name |-> n, content |-> applied[n]] \in marks

OnceInv == OncePerRun /\ EditedSince /\ MayApply /\ MarksFound

(* What a file is excused is a number. *)
LEMMA ExcuseFacts ==
  ASSUME TypeOK, NEW n \in Names
  PROVE  /\ Excuses(n) \in Nat /\ times[n] \in Nat /\ mishaps \in Nat
         /\ n \in raced => Excuses(n) = mishaps + 1
         /\ mishaps <= Excuses(n)
BY ContentFacts DEF TypeOK, Excuses

(* A mishap makes up for one application of every file. *)
LEMMA MishapExcuses ==
  ASSUME TypeOK, MayApply, mishaps' = mishaps + 1, UNCHANGED <<raced, times>>
  PROVE  \A n \in Names : times'[n] <= Excuses(n)' /\ times'[n] <= 1 + Excuses(n)'
<1>. SUFFICES ASSUME NEW n \in Names
              PROVE  times[n] <= Excuses(n)' /\ times[n] <= 1 + Excuses(n)'
  OBVIOUS
<1>1. Excuses(n)' = Excuses(n) + 1
  BY ExcuseFacts DEF Excuses, TypeOK
<1>. QED
  BY <1>1, ExcuseFacts DEF MayApply

(* The process ends, with the files as they were or after a mishap. *)
LEMMA ExitOnce ==
  ASSUME TypeOK, OnceInv, Exit, pc # "mark",
         UNCHANGED <<mode, yml, applied, raced, times, mishaps>>
  PROVE  OnceInv'
BY DEF Exit, OnceInv, OncePerRun, EditedSince, MayApply, MarksFound, Applying,
       Excuses, Done

LEMMA CrashOnce == ASSUME TypeOK, OnceInv, Crash PROVE OnceInv'
<1>1. \A n \in Names : times'[n] <= Excuses(n)' /\ times'[n] <= 1 + Excuses(n)'
  BY MishapExcuses DEF Crash, history, OnceInv
<1>2. pc' = "idle" /\ queue' = {} /\ found' = {}
  BY DEF Crash, Exit
<1>. QED
  BY <1>1, <1>2
     DEF OnceInv, OncePerRun, EditedSince, MayApply, MarksFound, Applying

LEMMA StartOnce == ASSUME TypeOK, Stages, OnceInv, Start PROVE OnceInv'
<1>0. /\ pc = "idle" /\ pc' = "scan" /\ found' = {} /\ queue' = {}
      /\ mode # "broken"
      /\ UNCHANGED <<mode, yml, applied, mishaps, raced, times>>
  BY DEF Start, Stages, files, history
<1>1. \A n \in Names : Excuses(n)' = Excuses(n) /\ Done(n)' = Done(n)
  BY <1>0 DEF Excuses, Done
<1>2. MayApply'
  BY <1>0, <1>1 DEF OnceInv, MayApply
<1>3. MarksFound'
  <2>. SUFFICES ASSUME mode = "keep", NEW n \in Names,
                       times[n] > Excuses(n), yml[n] # None
                PROVE  <<"applied", n>> \in entries'
    BY <1>0, <1>1 DEF MarksFound
  <2>1. times[n] \in Nat /\ Excuses(n) \in Nat
    BY ExcuseFacts
  <2>2. Done(n)
    BY <1>0, <2>1 DEF OnceInv, MayApply
  <2>3. applied[n] # None
    BY <2>2 DEF Done
  <2>. QED
    BY <2>3 DEF Start
<1>. QED
  BY <1>0, <1>2, <1>3 DEF OnceInv, OncePerRun, EditedSince, Applying

LEMMA ScanOnce ==
  ASSUME TypeOK, Stages, OnceInv, NEW e \in entries, Scan(e) PROVE OnceInv'
<1>. USE DEF files, history
<1>1. CASE Exit
  BY <1>1, ExitOnce DEF Scan
<1>2. CASE ~Exit
  <2>. DEFINE content == IF e[1] = "yml" THEN yml[e[2]] ELSE applied[e[2]]
              file == [name |-> e[2], content |-> content]
  <2>1. /\ pc = "scan" /\ pc' = "scan" /\ queue = {} /\ queue' = {}
        /\ entries' = entries \ {e}
        /\ \/ e[1] = "yml" /\ found' = found \cup {file} /\ UNCHANGED marks
           \/ e[1] # "yml" /\ marks' = marks \cup {file} /\ UNCHANGED found
        /\ UNCHANGED <<mode, yml, applied, mishaps, raced, times>>
    BY <1>2 DEF Scan, Stages
  <2>2. /\ e[2] \in Names /\ e = <<e[1], e[2]>> /\ e[1] \in {"yml", "applied"}
    BY DEF TypeOK
  <2>3. \A n \in Names : Excuses(n)' = Excuses(n) /\ Done(n)' = Done(n)
    BY <2>1 DEF Excuses, Done
  <2>4. MayApply'
    BY <2>1, <2>3 DEF OnceInv, MayApply
  <2>5. OncePerRun'
    <3>1. CASE found' = found
      BY <2>1, <3>1 DEF OnceInv, OncePerRun, Applying
    <3>2. CASE e[1] = "yml" /\ found' = found \cup {file}
      <4>1. \A f \in found : f.name # e[2]
        BY <2>2, <3>2 DEF OnceInv, OncePerRun
      <4>2. file.name = e[2]
        OBVIOUS
      <4>3. \A f \in found' : <<"yml", f.name>> \notin entries'
        BY <2>1, <2>2, <3>2, <4>2 DEF OnceInv, OncePerRun
      <4>4. \A f, g \in found' : f.name = g.name => f = g
        BY <3>2, <4>1, <4>2 DEF OnceInv, OncePerRun
      <4>. QED
        BY <2>1, <4>3, <4>4 DEF OncePerRun, Applying
    <3>. QED
      BY <2>1, <3>1, <3>2
  <2>6. EditedSince'
    <3>1. \A f \in found' : f.content # yml[f.name] => Edited(f.name)
      <4>1. e[1] = "yml" => file.content = yml[file.name]
        OBVIOUS
      <4>. QED
        BY <2>1, <4>1 DEF OnceInv, EditedSince
    <3>. QED
      BY <2>1, <3>1 DEF EditedSince, Edited
  <2>7. MarksFound'
    <3>. SUFFICES ASSUME mode = "keep", NEW n \in Names,
                         times[n] > Excuses(n), yml[n] # None
                  PROVE  \/ <<"applied", n>> \in entries'
                         \/ [name |-> n, content |-> applied[n]] \in marks'
      BY <2>1, <2>3 DEF MarksFound
    <3>1. \/ <<"applied", n>> \in entries
          \/ [name |-> n, content |-> applied[n]] \in marks
      BY <2>1 DEF OnceInv, MarksFound
    <3>2. CASE e = <<"applied", n>>
      <4>1. file = [name |-> n, content |-> applied[n]] /\ e[1] # "yml"
        BY <3>2
      <4>. QED
        BY <2>1, <4>1
    <3>3. CASE e # <<"applied", n>>
      BY <2>1, <3>1, <3>3
    <3>. QED
      BY <3>2, <3>3
  <2>. QED
    BY <2>4, <2>5, <2>6, <2>7 DEF OnceInv
<1>. QED
  BY <1>1, <1>2

(* What is queued is not done, or was edited since it was read: had it     *)
(* been done by its mark, it would have been dropped.                      *)
LEMMA CollectOnce ==
  ASSUME Undotted, TypeOK, Stages, OnceInv, Collect PROVE OnceInv'
<1>. USE DEF files, history
<1>0. /\ pc = "scan" /\ entries = {} /\ pc' = "next" /\ found' = {}
      /\ mode # "broken"
      /\ UNCHANGED <<mode, yml, applied, mishaps, raced, times>>
  BY DEF Collect, Stages
<1>1. \A f \in found : /\ f.name \in Names /\ PathOf(f.name) = f.name
                       /\ f = [name |-> f.name, content |-> f.content]
                       /\ f.content \in Contents
  BY UndottedPaths DEF TypeOK, File
<1>2. \A n \in Names : Excuses(n)' = Excuses(n) /\ Done(n)' = Done(n)
  BY <1>0 DEF Excuses, Done
<1>3. ASSUME NEW f \in found, f \notin marks
      PROVE  times[f.name] <= Excuses(f.name)
  <2>. DEFINE n == f.name
  <2>0. /\ n \in Names /\ times[n] \in Nat /\ Excuses(n) \in Nat
        /\ f.content # None
    BY <1>1, ExcuseFacts, ContentFacts
  <2>. SUFFICES ASSUME times[n] > Excuses(n) PROVE FALSE
    BY <2>0
  <2>1. f.content = yml[n]
    BY <2>0 DEF OnceInv, EditedSince, Edited
  <2>2. Done(n)
    BY <1>0, <2>0 DEF OnceInv, MayApply
  <2>3. mode = "keep" /\ applied[n] = yml[n]
    BY <2>0, <2>1, <2>2 DEF Done
  <2>4. [name |-> n, content |-> applied[n]] \in marks
    BY <1>0, <2>0, <2>1, <2>3 DEF OnceInv, MarksFound
  <2>. QED
    BY <1>1, <1>3, <2>1, <2>3, <2>4
<1>4. \A g \in queue' : \E f \in found : /\ f \notin marks
                                         /\ g.path = f.name
                                         /\ g.content = f.content
                                         /\ g = [path |-> f.name, content |-> f.content]
  BY <1>1 DEF Collect
<1>5. MayApply'
  BY <1>0, <1>1, <1>2, <1>3, <1>4 DEF OnceInv, MayApply
<1>6. OncePerRun'
  BY <1>0, <1>4 DEF OnceInv, OncePerRun, Applying
<1>7. EditedSince'
  BY <1>0, <1>4 DEF OnceInv, EditedSince, Edited
<1>. QED
  BY <1>0, <1>5, <1>6, <1>7 DEF OnceInv, MarksFound

LEMMA OpenOnce == ASSUME TypeOK, Stages, OnceInv, Open PROVE OnceInv'
<1>. USE DEF files, scan, history
<1>0. /\ pc = "next" /\ found = {} /\ found' = {}
      /\ UNCHANGED <<mode, yml, applied, mishaps, raced, times>>
  BY DEF Open, Stages
<1>1. PICK f \in queue :
        /\ queue' = queue \ {f}
        /\ pc' = "next" \/ (pc' = "apply" /\ current' = f)
  BY DEF Open
<1>2. \A n \in Names : Excuses(n)' = Excuses(n) /\ Done(n)' = Done(n)
  BY <1>0 DEF Excuses, Done
<1>3. \A g \in queue : g.path \in Names
  BY DEF TypeOK
<1>4. MayApply'
  BY <1>0, <1>1, <1>2, <1>3 DEF OnceInv, MayApply
<1>5. OncePerRun'
  BY <1>0, <1>1 DEF OnceInv, OncePerRun, Applying
<1>6. EditedSince'
  BY <1>0, <1>1 DEF OnceInv, EditedSince, Edited
<1>. QED
  BY <1>0, <1>1, <1>4, <1>5, <1>6 DEF OnceInv, MarksFound

LEMMA ApplyOnce == ASSUME TypeOK, Stages, OnceInv, Apply PROVE OnceInv'
<1>. USE DEF files, scan, history
<1>. DEFINE n == current.path
<1>0. /\ pc = "apply" /\ n \in Names /\ found = {} /\ found' = {}
      /\ UNCHANGED <<mode, yml, applied, raced, queue, current>>
      /\ \A f \in queue : f.path \in Names /\ f.path # n
  BY DEF Apply, Stages, TypeOK, OnceInv, OncePerRun, Applying
<1>1. OncePerRun'
  BY <1>0 DEF OnceInv, OncePerRun, Applying
<1>2. \A m \in Names : Done(m)' = Done(m)
  BY <1>0 DEF Done
<1>3. CASE pc' = "next" /\ times' = times /\ mishaps' \in {mishaps, mishaps + 1}
  <2>1. \A m \in Names : Excuses(m) <= Excuses(m)' /\ Excuses(m)' \in Nat
    BY <1>0, <1>3, ExcuseFacts DEF Excuses
  <2>2. MayApply'
    <3>1. \A m \in Names : times[m] \in Nat /\ Excuses(m) \in Nat
      BY ExcuseFacts
    <3>2. \A m \in Names : times[m] <= 1 + Excuses(m)'
      BY <2>1, <3>1 DEF OnceInv, MayApply
    <3>3. \A m \in Names : ~Done(m) => times[m] <= Excuses(m)'
      BY <1>0, <2>1, <3>1 DEF OnceInv, MayApply
    <3>4. \A f \in queue : times[f.path] <= Excuses(f.path)'
      BY <1>0, <2>1, <3>1 DEF OnceInv, MayApply
    <3>. QED
      BY <1>0, <1>2, <1>3, <3>2, <3>3, <3>4 DEF MayApply
  <2>3. EditedSince'
    BY <1>0, <1>3 DEF OnceInv, EditedSince, Edited
  <2>. QED
    BY <1>1, <1>3, <2>2, <2>3 DEF OnceInv, MarksFound
<1>4. CASE /\ pc' = "mark" /\ mishaps' = mishaps
           /\ times' = [times EXCEPT ![n] = times[n] + 1]
  <2>1. \A m \in Names : Excuses(m)' = Excuses(m)
    BY <1>0, <1>4 DEF Excuses
  <2>2. /\ times'[n] = times[n] + 1
        /\ \A m \in Names : m # n => times'[m] = times[m]
    BY <1>0, <1>4 DEF TypeOK
  <2>3. times[n] \in Nat /\ Excuses(n) \in Nat /\ times[n] <= Excuses(n)
    BY <1>0, ExcuseFacts DEF OnceInv, MayApply
  <2>4. MayApply'
    <3>1. \A m \in Names : times'[m] <= 1 + Excuses(m)
      BY <2>2, <2>3 DEF OnceInv, MayApply
    <3>2. \A m \in Names : m # n /\ ~Done(m) => times'[m] <= Excuses(m)
      BY <1>0, <2>2 DEF OnceInv, MayApply
    <3>3. \A f \in queue : times'[f.path] <= Excuses(f.path)
      BY <1>0, <2>2 DEF OnceInv, MayApply
    <3>. QED
      BY <1>0, <1>2, <1>4, <2>1, <3>1, <3>2, <3>3 DEF MayApply
  <2>5. EditedSince'
    <3>1. \A f \in queue : f.content # yml[f.path] => Edited(f.path)'
      BY <1>0, <2>2 DEF OnceInv, EditedSince, Edited
    <3>2. current.content # yml[n] => n \in raced /\ times'[n] <= 1
      BY <1>0, <2>2, <2>3 DEF OnceInv, EditedSince, Edited
    <3>. QED
      BY <1>0, <1>4, <3>1, <3>2 DEF EditedSince
  <2>. QED
    BY <1>1, <1>4, <2>4, <2>5 DEF OnceInv, MarksFound
<1>. QED
  BY <1>3, <1>4 DEF Apply

(* A mark that is written makes the file done, unless it was edited in     *)
(* this run; then it was applied at most once since.                       *)
LEMMA MarkOnce == ASSUME TypeOK, Stages, OnceInv, Mark PROVE OnceInv'
<1>. USE DEF files, scan, history
<1>. DEFINE n == current.path
<1>0. /\ pc = "mark" /\ pc' = "next" /\ n \in Names /\ found = {} /\ found' = {}
      /\ current.content \in Contents /\ mode # "broken"
      /\ UNCHANGED <<mode, raced, times, queue, current>>
      /\ \A f \in queue : f.path \in Names /\ f.path # n
  BY DEF Mark, Stages, TypeOK, OnceInv, OncePerRun, Applying
<1>1. OncePerRun'
  BY <1>0 DEF OnceInv, OncePerRun, Applying
<1>2. \A m \in Names : m # n => yml'[m] = yml[m] /\ applied'[m] = applied[m]
  BY <1>0 DEF Mark, TypeOK
<1>3. EditedSince'
  BY <1>0, <1>2 DEF OnceInv, EditedSince, Edited
<1>4. CASE mishaps' = mishaps + 1
  <2>1. \A m \in Names : times'[m] <= Excuses(m)' /\ times'[m] <= 1 + Excuses(m)'
    BY <1>0, <1>4, MishapExcuses DEF OnceInv
  <2>2. MayApply'
    BY <1>0, <2>1 DEF MayApply
  <2>. QED
    BY <1>0, <1>1, <1>3, <2>2 DEF OnceInv, MarksFound
<1>5. CASE mishaps' = mishaps /\ mishaps' # mishaps + 1
  <2>1. \A m \in Names : Excuses(m)' = Excuses(m)
    BY <1>0, <1>5 DEF Excuses
  <2>2. \A m \in Names : m # n => Done(m)' = Done(m)
    BY <1>0, <1>2 DEF Done
  <2>3. Done(n)' \/ times[n] <= Excuses(n)
    <3>1. CASE mode = "keep"
      <4>1. applied'[n] = current.content /\ yml' = yml
        BY <1>0, <1>5, <3>1 DEF Mark, TypeOK
      <4>2. CASE current.content = yml[n]
        BY <1>0, <3>1, <4>1, <4>2 DEF Done
      <4>3. CASE current.content # yml[n]
        <5>1. n \in raced /\ times[n] <= 1
          BY <1>0, <4>3 DEF OnceInv, EditedSince
        <5>. QED
          BY <1>0, <5>1, ExcuseFacts
      <4>. QED
        BY <4>2, <4>3
    <3>2. CASE mode = "rename"
      <4>0. yml' = [yml EXCEPT ![n] = None] \/ (yml[n] = None /\ yml' = yml)
        BY <1>5, <3>2 DEF Mark
      <4>1. yml'[n] = None
        BY <1>0, <4>0 DEF TypeOK
      <4>. QED
        BY <1>0, <4>1 DEF Done
    <3>. QED
      BY <1>0, <3>1, <3>2, ServiceAssumption DEF TypeOK
  <2>4. MayApply'
    <3>1. \A m \in Names : ~Done(m)' => times[m] <= Excuses(m)
      BY <1>0, <2>2, <2>3 DEF OnceInv, MayApply
    <3>. QED
      BY <1>0, <2>1, <3>1 DEF OnceInv, MayApply
  <2>. QED
    BY <1>0, <1>1, <1>3, <2>4 DEF OnceInv, MarksFound
<1>. QED
  BY <1>4, <1>5 DEF Mark

(* An edit starts the count of its file anew. *)
LEMMA EditOnce ==
  ASSUME TypeOK, Stages, OnceInv, NEW n \in Names, NEW c \in Texts, Edit(n, c)
  PROVE  OnceInv'
<1>. USE DEF files, scan
<1>0. /\ yml' = [yml EXCEPT ![n] = c]
      /\ times' = [times EXCEPT ![n] = 0]
      /\ raced' = IF pc = "idle" THEN raced ELSE raced \cup {n}
      /\ UNCHANGED <<pc, mode, applied, entries, found, marks, queue, current,
                     mishaps>>
  BY DEF Edit
<1>1. /\ times'[n] = 0
      /\ \A m \in Names : m # n => times'[m] = times[m] /\ yml'[m] = yml[m]
  BY <1>0 DEF TypeOK
<1>2. \A m : m # n => (m \in raced' <=> m \in raced)
  BY <1>0
<1>3. /\ \A m \in Names : m # n => Excuses(m)' = Excuses(m) /\ Done(m)' = Done(m)
      /\ Excuses(n)' \in Nat
  BY <1>0, <1>1, <1>2, ExcuseFacts DEF Excuses, Done
<1>4. OncePerRun'
  BY <1>0 DEF OnceInv, OncePerRun, Applying
<1>5. EditedSince'
  <2>1. CASE pc = "idle"
    BY <1>0, <2>1 DEF EditedSince, Stages
  <2>2. CASE pc # "idle"
    <3>1. n \in raced'
      BY <1>0, <2>2
    <3>2. \A f \in found : f.content # yml'[f.name] => Edited(f.name)'
      BY <1>1, <1>2, <3>1 DEF OnceInv, EditedSince, Edited, TypeOK, File
    <3>3. \A f \in queue : f.content # yml'[f.path] => Edited(f.path)'
      BY <1>1, <1>2, <3>1 DEF OnceInv, EditedSince, Edited, TypeOK
    <3>4. pc = "apply" /\ current.content # yml'[current.path] =>
            Edited(current.path)'
      BY <1>0, <1>1, <1>2, <3>1 DEF OnceInv, EditedSince, Edited, TypeOK
    <3>5. pc = "mark" /\ current.content # yml'[current.path] =>
            current.path \in raced' /\ times'[current.path] <= 1
      BY <1>0, <1>1, <1>2, <3>1 DEF OnceInv, EditedSince, TypeOK
    <3>. QED
      BY <1>0, <3>2, <3>3, <3>4, <3>5 DEF EditedSince
  <2>. QED
    BY <2>1, <2>2
<1>6. MayApply'
  <2>1. \A m \in Names : times'[m] <= 1 + Excuses(m)'
    BY <1>1, <1>3 DEF OnceInv, MayApply
  <2>2. \A m \in Names : ~Done(m)' /\ ~(pc = "mark" /\ current.path = m) =>
                           times'[m] <= Excuses(m)'
    BY <1>1, <1>3 DEF OnceInv, MayApply
  <2>3. \A f \in queue : times'[f.path] <= Excuses(f.path)'
    BY <1>1, <1>3 DEF OnceInv, MayApply, TypeOK
  <2>4. pc = "apply" => times'[current.path] <= Excuses(current.path)'
    BY <1>0, <1>1, <1>3 DEF OnceInv, MayApply, TypeOK
  <2>. QED
    BY <1>0, <2>1, <2>2, <2>3, <2>4 DEF MayApply
<1>7. MarksFound'
  BY <1>0, <1>1, <1>3 DEF OnceInv, MarksFound
<1>. QED
  BY <1>4, <1>5, <1>6, <1>7 DEF OnceInv

LEMMA ConfigureOnce ==
  ASSUME TypeOK, Stages, OnceInv, NEW m \in Modes, Configure(m) PROVE OnceInv'
<1>0. /\ pc = "idle" /\ found = {} /\ queue = {}
      /\ times' = [n \in Names |-> 0]
      /\ UNCHANGED <<pc, found, queue, raced, mishaps>>
  BY DEF Configure, Stages, scan
<1>1. \A n \in Names : times'[n] <= Excuses(n)' /\ times'[n] <= 1 + Excuses(n)'
  BY <1>0, ExcuseFacts DEF Excuses
<1>. QED
  BY <1>0, <1>1
     DEF OnceInv, OncePerRun, EditedSince, MayApply, MarksFound, Applying

(* Whatever crashes or fails, and however often the service runs, a file   *)
(* that is not edited is applied once, and once more for each mishap: the  *)
(* marks are found and nothing is queued twice.  (Names without dots of    *)
(* their own.)                                                             *)
THEOREM FilesAreAppliedOnce ==
  ASSUME Undotted PROVE Spec => []AppliedOnce
<1>1. Init => OnceInv
  BY ServiceAssumption
     DEF Init, OnceInv, OncePerRun, EditedSince, MayApply, MarksFound, Applying,
         Excuses
<1>2. TypeOK /\ Stages /\ OnceInv /\ [Next]_vars => OnceInv'
  <2>. SUFFICES ASSUME TypeOK, Stages, OnceInv, [Next]_vars PROVE OnceInv'
    OBVIOUS
  <2>1. CASE Finish
    BY <2>1, ExitOnce DEF Finish, files, history
  <2>2. CASE UNCHANGED vars
    BY <2>2
       DEF vars, OnceInv, OncePerRun, EditedSince, Edited, MayApply, MarksFound,
           Applying, Excuses, Done
  <2>. QED
    BY <2>1, <2>2, StartOnce, ScanOnce, CollectOnce, OpenOnce, ApplyOnce,
       MarkOnce, CrashOnce, EditOnce, ConfigureOnce DEF Next, Work, Texts
<1>3. TypeOK /\ OnceInv => AppliedOnce
  <2>. SUFFICES ASSUME TypeOK, OnceInv, NEW n \in Names
                PROVE  times[n] <= 1 + mishaps + IF n \in raced THEN 1 ELSE 0
    BY DEF AppliedOnce
  <2>1. times[n] <= 1 + Excuses(n)
    BY DEF OnceInv, MayApply
  <2>2. 1 + Excuses(n) = 1 + mishaps + IF n \in raced THEN 1 ELSE 0
    BY ContentFacts DEF Excuses, TypeOK
  <2>. QED
    BY <2>1, <2>2
<1>. QED
  BY <1>1, <1>2, <1>3, TypeInit, TypeStep, PTL DEF Spec
=============================================================================
