------------------------------- MODULE Service -------------------------------
(***************************************************************************)
(* `nmstatectl service` (rust/src/cli/service.rs): at each boot it applies *)
(* the .yml files of a folder in the order of their names and marks what   *)
(* it applied, by renaming the file to .applied or, when configured to     *)
(* keep it, by writing its content to a .applied file.  An administrator   *)
(* edits the folder, the machine may go down at any step.                  *)
(*                                                                         *)
(* A file name without its extension is a sequence of the parts between    *)
(* its dots: eth0.100.yml is <<"eth0", "100">>.                            *)
(***************************************************************************)
EXTENDS Naturals, Sequences

CONSTANTS
  NameOrder,   \* the names of the folder's files, sorted
  Contents,    \* what a file may hold
  Invalid,     \* the contents that cannot be applied
  Unreadable,  \* (a set) files that are no text
  Torn,        \* a file that was being written when the machine went down
  None,        \* no file
  Modes,       \* what nmstate.conf may say
  MaxMishaps   \* bound on crashes and failed calls

Names == {NameOrder[i] : i \in 1..Len(NameOrder)}
Rank(n) == CHOOSE i \in 1..Len(NameOrder) : NameOrder[i] = n

(* Path::with_extension("") when a .yml file is collected and              *)
(* with_extension("yml") when it is returned: the second drops what        *)
(* follows the last dot of the name itself.                                *)
PathOf(n) == IF Len(n) > 1 THEN SubSeq(n, 1, Len(n) - 1) ELSE n

(* A name is listed whether there is a file or not, so that the paths that *)
(* are looked up can be among the names.                                   *)
ASSUME ServiceAssumption ==
  /\ \A n \in Names : PathOf(n) \in Names
  /\ Invalid \subseteq Contents
  /\ ({Torn, None} \cup Unreadable) \cap Contents = {}
  /\ Torn # None /\ {Torn, None} \cap Unreadable = {}
  /\ Modes \subseteq {"rename", "keep", "broken"}
  /\ MaxMishaps \in Nat

VARIABLES
  pc,       \* where the service is
  mode,     \* what nmstate.conf says
  yml,      \* the .yml files
  applied,  \* the .applied files
  entries,  \* directory entries not read yet
  found,    \* [name, content] of the .yml files read
  marks,    \* [name, content] of the .applied files read
  queue,    \* [path, content] to apply
  current,  \* the entry of the queue being applied
  opened,   \* the content that was read for it
  mishaps,  \* crashes and failed calls so far
  raced,    \* (history) files edited while the service was running
  ever,     \* (history) contents of each file applied so far
  times     \* (history) how often it was applied since its last edit

vars == <<pc, mode, yml, applied, entries, found, marks, queue, current,
          opened, mishaps, raced, ever, times>>
files == <<yml, applied>>
scan == <<entries, found, marks>>
history == <<raced, ever, times>>

File == [name : Names, content : Contents]
Nobody == [path |-> None, content |-> None]

Init ==
  /\ pc = "idle"
  /\ mode \in Modes
  /\ yml \in [Names -> Contents \cup Unreadable \cup {None}]
  /\ applied = [n \in Names |-> None]
  /\ entries = {} /\ found = {} /\ marks = {} /\ queue = {}
  /\ current = Nobody /\ opened = None
  /\ mishaps = 0
  /\ raced = {}
  /\ ever = [n \in Names |-> {}]
  /\ times = [n \in Names |-> 0]

(* The process ends, and what it knew is gone. *)
Exit ==
  /\ pc' = "idle"
  /\ entries' = {} /\ found' = {} /\ marks' = {} /\ queue' = {}
  /\ current' = Nobody /\ opened' = None

(* The service is started, reads nmstate.conf, which must be well formed,  *)
(* and lists the folder.                                                   *)
Start ==
  /\ pc = "idle" /\ mode # "broken"
  /\ pc' = "scan"
  /\ entries' = {<<"yml", n>> : n \in {m \in Names : yml[m] # None}} \cup
                {<<"applied", n>> : n \in {m \in Names :
                                      mode = "keep" /\ applied[m] # None}}
  /\ found' = {} /\ marks' = {}
  /\ UNCHANGED <<mode, files, queue, current, opened, mishaps, history>>

(* Mutant: a file that is no text is collected. *)
ScanAnything(e) ==
  /\ pc = "scan" /\ e \in entries
  /\ entries' = entries \ {e}
  /\ found' = found \cup {[name |-> e[2], content |-> yml[e[2]]]}
  /\ UNCHANGED <<pc, mode, files, marks, queue, current, opened, mishaps,
                 history>>

(* read_to_string() of one entry; an error ends the service. *)
Scan(e) ==
  LET content == IF e[1] = "yml" THEN yml[e[2]] ELSE applied[e[2]]
      file == [name |-> e[2], content |-> content]
  IN /\ pc = "scan" /\ e \in entries
     /\ \/ /\ content \in Unreadable \cup {None}
           /\ Exit
        \/ /\ content \notin Unreadable \cup {None}
           /\ entries' = entries \ {e}
           /\ \/ e[1] = "yml" /\ found' = found \cup {file} /\ UNCHANGED marks
              \/ e[1] # "yml" /\ marks' = marks \cup {file} /\ UNCHANGED found
           /\ UNCHANGED <<pc, queue, current, opened>>
     /\ UNCHANGED <<mode, files, mishaps, history>>

(* Mutant: the marks are not looked at. *)
CollectAll ==
  /\ pc = "scan" /\ entries = {}
  /\ queue' = {[path |-> PathOf(f.name), content |-> f.content] : f \in found}
  /\ pc' = "next"
  /\ UNCHANGED <<mode, files, scan, current, opened, mishaps, history>>

(* The end of get_unapplied_state_files(). *)
Collect ==
  /\ pc = "scan" /\ entries = {}
  /\ queue' = {[path |-> PathOf(f.name), content |-> f.content] :
                 f \in found \ marks}
  /\ pc' = "next"
  /\ entries' = {} /\ found' = {} /\ marks' = {}
  /\ UNCHANGED <<mode, files, current, opened, mishaps, history>>

(* Open and read the next file in the order of their paths.  One that is   *)
(* gone is skipped; one that cannot be read is not applied.                *)
Open ==
  /\ pc = "next" /\ queue # {}
  /\ \E f \in queue :
       /\ \A g \in queue : Rank(f.path) <= Rank(g.path)
       /\ queue' = queue \ {f}
       /\ \/ /\ yml[f.path] \in Unreadable \cup {None}
             /\ UNCHANGED <<pc, current, opened>>
          \/ /\ yml[f.path] \notin Unreadable \cup {None}
             /\ pc' = "apply" /\ current' = f /\ opened' = yml[f.path]
  /\ UNCHANGED <<mode, files, scan, mishaps, history>>

Finish ==
  /\ pc = "next" /\ queue = {}
  /\ Exit
  /\ UNCHANGED <<mode, files, mishaps, history>>

(* Mutant: an apply that fails is marked as well. *)
ApplyMarksFailure ==
  /\ pc = "apply"
  /\ pc' = "mark"
  /\ IF opened \in Invalid THEN UNCHANGED history
     ELSE /\ ever' = [ever EXCEPT ![current.path] = @ \cup {opened}]
          /\ times' = [times EXCEPT ![current.path] = @ + 1]
          /\ UNCHANGED raced
  /\ UNCHANGED <<mode, files, scan, queue, current, opened, mishaps>>

(* Mutant: the first file that cannot be applied ends the service. *)
ApplyStopsAtFailure ==
  /\ pc = "apply"
  /\ \/ /\ opened \notin Invalid
        /\ pc' = "mark"
        /\ ever' = [ever EXCEPT ![current.path] = @ \cup {opened}]
        /\ times' = [times EXCEPT ![current.path] = @ + 1]
        /\ UNCHANGED <<scan, queue, current, opened, raced>>
     \/ opened \in Invalid /\ Exit /\ UNCHANGED history
  /\ UNCHANGED <<mode, files, mishaps>>

(* apply() of what was read: it succeeds, the state is refused, or a call  *)
(* fails; an error is logged and the next file is tried.                   *)
Apply ==
  /\ pc = "apply"
  /\ \/ /\ opened \notin Invalid
        /\ pc' = "mark"
        /\ ever' = [ever EXCEPT ![current.path] = @ \cup {opened}]
        /\ times' = [times EXCEPT ![current.path] = @ + 1]
        /\ UNCHANGED <<mishaps, raced>>
     \/ /\ opened \in Invalid
        /\ pc' = "next"
        /\ UNCHANGED <<mishaps, history>>
     \/ /\ mishaps < MaxMishaps
        /\ mishaps' = mishaps + 1
        /\ pc' = "next"
        /\ UNCHANGED history
  /\ UNCHANGED <<mode, files, scan, queue, current, opened>>

(* relocate_file(), which renames what is there by now, or                 *)
(* write_content() of what the scan read; an error is only logged.         *)
Mark ==
  /\ pc = "mark"
  /\ pc' = "next"
  /\ \/ /\ mode = "keep"
        /\ applied' = [applied EXCEPT ![current.path] = current.content]
        /\ UNCHANGED <<yml, mishaps>>
     \/ /\ mode = "rename" /\ yml[current.path] # None
        /\ applied' = [applied EXCEPT ![current.path] = yml[current.path]]
        /\ yml' = [yml EXCEPT ![current.path] = None]
        /\ UNCHANGED mishaps
     \/ /\ mode = "rename" /\ yml[current.path] = None
        /\ UNCHANGED <<files, mishaps>>
     \/ /\ mishaps < MaxMishaps
        /\ mishaps' = mishaps + 1
        /\ UNCHANGED files
  /\ UNCHANGED <<mode, scan, queue, current, opened, history>>

(* The machine goes down.  fs::write() truncates the file first. *)
Crash ==
  /\ pc # "idle" /\ mishaps < MaxMishaps
  /\ Exit
  /\ mishaps' = mishaps + 1
  /\ \/ UNCHANGED applied
     \/ /\ pc = "mark" /\ mode = "keep"
        /\ applied' = [applied EXCEPT ![current.path] = Torn]
  /\ UNCHANGED <<mode, yml, history>>

(* The administrator writes or removes a .yml file. *)
Edit(n, c) ==
  /\ yml[n] # c
  /\ raced' = IF pc = "idle" THEN raced ELSE raced \cup {n}
  /\ yml' = [yml EXCEPT ![n] = c]
  /\ times' = [times EXCEPT ![n] = 0]
  /\ UNCHANGED <<pc, mode, applied, scan, queue, current, opened, mishaps,
                 ever>>

(* The administrator changes nmstate.conf between two runs. *)
Configure(m) ==
  /\ pc = "idle" /\ mode # m
  /\ mode' = m
  /\ times' = [n \in Names |-> 0]
  /\ UNCHANGED <<pc, files, scan, queue, current, opened, mishaps, raced, ever>>

Work == Start \/ (\E e \in entries : Scan(e)) \/ Collect \/ Open \/ Finish
        \/ Apply \/ Mark

Next ==
  \/ Work \/ Crash
  \/ \E n \in Names, c \in Contents \cup Unreadable \cup {None} : Edit(n, c)
  \/ \E m \in Modes : Configure(m)

Spec == Init /\ [][Next]_vars
(* The service is started at every boot and runs. *)
FairSpec == Spec /\ WF_vars(Work)

(* Types; get_unapplied_state_files() queues nothing that is no text, and  *)
(* nothing that is no text is applied.                                     *)
TypeOK ==
  /\ pc \in {"idle", "scan", "next", "apply", "mark"}
  /\ mode \in Modes
  /\ yml \in [Names -> Contents \cup Unreadable \cup {None}]
  /\ applied \in [Names -> Contents \cup Unreadable \cup {None, Torn}]
  /\ entries \subseteq {"yml", "applied"} \X Names
  /\ found \subseteq File
  /\ \A f \in marks : f.name \in Names /\ f.content \in Contents \cup {Torn}
  /\ queue \subseteq [path : Names, content : Contents]
  /\ pc \in {"apply", "mark"} =>
       /\ current \in [path : Names, content : Contents]
       /\ opened \in Contents
  /\ mishaps \in 0..MaxMishaps
  /\ raced \subseteq Names /\ ever \in [Names -> SUBSET Contents]
  /\ times \in [Names -> Nat]
-----------------------------------------------------------------------------
(* A .applied file holds what was applied, whatever crashed or failed,     *)
(* unless the file was edited while the service was running.               *)
MarkedWasApplied ==
  \A n \in Names \ raced : applied[n] \in Contents => applied[n] \in ever[n]

(* A file is applied once, and once more for each crash or failed call:    *)
(* marking it prevents "it being applied again when the service runs       *)
(* next".  An edit that races with the service costs one application more: *)
(* the mark may be of what the file held before the edit, or the           *)
(* application of what it held before is counted.  (No dots in names.)     *)
AppliedOnce ==
  \A n \in Names : times[n] <= 1 + mishaps + IF n \in raced THEN 1 ELSE 0

(* Every valid file that stays in the folder is applied, also next to one  *)
(* that cannot be, once nmstate.conf is well formed and every file is      *)
(* text for good, and nobody edits while the service runs.  (No dots in    *)
(* names.)                                                                 *)
EveryFileApplied ==
  <>[](mode # "broken" /\ \A m \in Names : yml[m] \notin Unreadable) =>
    \A n \in Names, c \in Contents \ Invalid :
      (yml[n] = c /\ raced = {})
      ~> (c \in ever[n] \/ yml[n] # c \/ raced # {})

(* "apply all network state files ending with .yml": a valid file does not *)
(* wait for ever, whatever else is in the folder.                          *)
DocAllApplied ==
  \A n \in Names, c \in Contents \ Invalid :
    yml[n] = c ~> (c \in ever[n] \/ yml[n] # c)
=============================================================================
