------------------------------- MODULE SvnSync -------------------------------
(***************************************************************************)
(* script/compareFilesSVN.py: goThroughDir() updates the offshore working  *)
(* copy, walks the onsite directory, copies every file whose modification  *)
(* time or size differs (copy2 keeps the modification time), and commits   *)
(* the working copy if it copied anything.  It is run again and again; a   *)
(* run may be cut off or end in an exception anywhere.                     *)
(*                                                                         *)
(* A file's content is the number of the onsite edit it comes from, or one *)
(* of the contents below.  Two different onsite versions of a file differ  *)
(* in modification time or size (no two edits of the same size within the  *)
(* millisecond the script rounds to), so a stamp is the edit it comes from *)
(* or Other, the time of a Subversion update or of a copy that was cut off.*)
(* Subversion is modelled from how the script uses it: an update merges a  *)
(* locally modified file, with or without a conflict; a commit takes all   *)
(* modified versioned files, unless one is out of date or a conflict is    *)
(* left, when it is refused.                                               *)
(* The onsite folder is edited between runs only, as the docstring asks.   *)
(***************************************************************************)
EXTENDS Naturals

CONSTANTS Files,       \* the files of the onsite folder, by relative path
          Unversioned, \* those the offshore repository does not have
          MaxEdits,    \* onsite edits of each file (bound)
          Offshore,    \* contents: what the offshore site commits,
          Merged,      \* what an update merges,
          Torn,        \* what a copy that was cut off leaves,
          None,        \* no file
          Other        \* a stamp no onsite version has

ASSUME SvnAssumption ==
  /\ Unversioned \subseteq Files
  /\ MaxEdits \in Nat
  /\ {Offshore, Merged, Torn, None, Other} \cap Nat = {}
  /\ Offshore \notin {Merged, Torn, None}
  /\ Merged \notin {Torn, None}
  /\ Torn # None

VARIABLES
  onsite,      \* the last edit of each onsite file
  wc,          \* content of each file in the offshore working copy
  stamp,       \* modification time of each file there
  base,        \* what the working copy was checked out or updated to
  conflict,    \* files of the working copy marked as in conflict
  repo,        \* content of each file in the offshore repository
  current,     \* files with no newer revision than base in the repository
  run,         \* goThroughDir(): "idle", "update", "walk", "checkin", "done"
  todo,        \* files the walk has still to come to
  changed,     \* change_file_list is not empty
  cutOff       \* a run was cut off or refused since the last commit (history)

svnVars == <<base, conflict, repo, current>>
vars == <<onsite, wc, stamp, svnVars, run, todo, changed, cutOff>>

Versioned == Files \ Unversioned
Edits     == 0 .. MaxEdits
Contents  == Edits \cup {Offshore, Merged, Torn, None}

TypeOK ==
  /\ onsite \in [Files -> Edits]
  /\ wc \in [Files -> Contents]
  /\ stamp \in [Files -> Edits \cup {Other}]
  /\ base \in [Versioned -> Edits \cup {Offshore, None}]
  /\ conflict \in SUBSET Versioned
  /\ repo \in [Files -> Contents]
  /\ current \in SUBSET Versioned
  /\ run \in {"idle", "update", "walk", "checkin", "done"}
  /\ todo \in SUBSET Files
  /\ changed \in BOOLEAN
  /\ cutOff \in BOOLEAN

Init ==
  /\ onsite = [f \in Files |-> 0]
  /\ wc = [f \in Files |-> IF f \in Versioned THEN 0 ELSE None]
  /\ stamp = [f \in Files |-> Other]
  /\ base = [f \in Versioned |-> 0]
  /\ conflict = {}
  /\ repo = [f \in Files |-> IF f \in Versioned THEN 0 ELSE None]
  /\ current = Versioned
  /\ run = "idle"
  /\ todo = {}
  /\ changed = FALSE
  /\ cutOff = FALSE

(* What svn status reports as modified.                                    *)
Modified == {f \in Versioned : wc[f] # base[f]}

-----------------------------------------------------------------------------
(* The people at both sites, and whatever cuts a run off.                  *)

EditOnsite(f) ==
  /\ run = "idle"
  /\ onsite[f] < MaxEdits
  /\ onsite' = [onsite EXCEPT ![f] = @ + 1]
  /\ UNCHANGED <<wc, stamp, svnVars, run, todo, changed, cutOff>>

CommitOffshore(f) ==
  /\ repo' = [repo EXCEPT ![f] = Offshore]
  /\ current' = current \ {f}
  /\ UNCHANGED <<onsite, wc, stamp, base, conflict, run, todo, changed, cutOff>>

CutOff ==
  /\ run \in {"walk", "checkin"}
  /\ run' = "idle"
  /\ cutOff' = TRUE
  /\ UNCHANGED <<onsite, wc, stamp, svnVars, todo, changed>>

-----------------------------------------------------------------------------
(* goThroughDir().                                                         *)

Start ==
  /\ run = "idle"
  /\ run' = "update"
  /\ UNCHANGED <<onsite, wc, stamp, svnVars, todo, changed, cutOff>>

(* client.update(offshoreDir), which runs to its end and leaves conflicts  *)
(* to be resolved by hand; then os.walk over the onsite folder.            *)
Stale == Versioned \ current

Update ==
  /\ run = "update"
  /\ \E clash \in SUBSET (Stale \cap Modified) :
       /\ conflict' = conflict \cup clash
       /\ wc' = [f \in Files |->
                   CASE f \in Stale \ Modified     -> repo[f]
                     [] f \in Stale \cap Modified -> Merged
                     [] OTHER                      -> wc[f]]
  /\ stamp' = [f \in Files |-> IF f \in Stale THEN Other ELSE stamp[f]]
  /\ base' = [f \in Versioned |-> repo[f]]
  /\ current' = Versioned
  /\ run' = "walk"
  /\ todo' = Files
  /\ changed' = FALSE
  /\ UNCHANGED <<onsite, repo, cutOff>>

(* The stat of both files; a file without one on the other side is copied. *)
NeedsCopy(f) == wc[f] = None \/ stamp[f] # onsite[f]

(* Faulty variant: only files that are missing are copied.                 *)
CompareMissing(f) ==
  /\ run = "walk"
  /\ f \in todo
  /\ todo' = todo \ {f}
  /\ IF wc[f] = None
       THEN /\ wc' = [wc EXCEPT ![f] = onsite[f]]
            /\ stamp' = [stamp EXCEPT ![f] = onsite[f]]
            /\ changed' = TRUE
       ELSE UNCHANGED <<wc, stamp, changed>>
  /\ UNCHANGED <<onsite, svnVars, run, cutOff>>

(* Faulty variant: the list keeps only the result of the last comparison.  *)
CompareLast(f) ==
  /\ run = "walk"
  /\ f \in todo
  /\ todo' = todo \ {f}
  /\ changed' = NeedsCopy(f)
  /\ IF NeedsCopy(f)
       THEN /\ wc' = [wc EXCEPT ![f] = onsite[f]]
            /\ stamp' = [stamp EXCEPT ![f] = onsite[f]]
       ELSE UNCHANGED <<wc, stamp>>
  /\ UNCHANGED <<onsite, svnVars, run, cutOff>>

CompareAndCopy(f) ==
  /\ run = "walk"
  /\ f \in todo
  /\ todo' = todo \ {f}
  /\ IF NeedsCopy(f)
       THEN /\ wc' = [wc EXCEPT ![f] = onsite[f]]
            /\ stamp' = [stamp EXCEPT ![f] = onsite[f]]
            /\ changed' = TRUE
       ELSE UNCHANGED <<wc, stamp, changed>>
  /\ UNCHANGED <<onsite, svnVars, run, cutOff>>

(* Faulty variant: the modification time is set before the content.        *)
TearCopyStamped(f) ==
  /\ run = "walk"
  /\ f \in todo
  /\ NeedsCopy(f)
  /\ wc' = [wc EXCEPT ![f] = Torn]
  /\ stamp' = [stamp EXCEPT ![f] = onsite[f]]
  /\ run' = "idle"
  /\ cutOff' = TRUE
  /\ UNCHANGED <<onsite, svnVars, todo, changed>>

(* copy2 cut off, or failing, before it has set the modification time.     *)
TearCopy(f) ==
  /\ run = "walk"
  /\ f \in todo
  /\ NeedsCopy(f)
  /\ wc' = [wc EXCEPT ![f] = Torn]
  /\ stamp' = [stamp EXCEPT ![f] = Other]
  /\ run' = "idle"
  /\ cutOff' = TRUE
  /\ UNCHANGED <<onsite, svnVars, todo, changed>>

EndWalk ==
  /\ run = "walk"
  /\ todo = {}
  /\ run' = IF changed THEN "checkin" ELSE "done"
  /\ UNCHANGED <<onsite, wc, stamp, svnVars, todo, changed, cutOff>>

Committable == Modified \subseteq current /\ conflict = {}

(* client.checkin(offshoreDir): raises an exception that ends the run, or  *)
(* commits.  Nothing was added, so files without a version stay out.       *)
Checkin ==
  /\ run = "checkin"
  /\ IF Committable
       THEN /\ repo' = [f \in Files |-> IF f \in Modified THEN wc[f] ELSE repo[f]]
            /\ base' = [f \in Versioned |-> wc[f]]
            /\ run' = "done"
            /\ cutOff' = FALSE
       ELSE /\ run' = "idle"
            /\ cutOff' = TRUE
            /\ UNCHANGED <<repo, base>>
  /\ UNCHANGED <<onsite, wc, stamp, conflict, current, todo, changed>>

Exit ==
  /\ run = "done"
  /\ run' = "idle"
  /\ UNCHANGED <<onsite, wc, stamp, svnVars, todo, changed, cutOff>>

-----------------------------------------------------------------------------
Next ==
  \/ \E f \in Files : EditOnsite(f)
  \/ \E f \in Versioned : CommitOffshore(f)
  \/ CutOff \/ Start \/ Update
  \/ \E f \in Files : CompareAndCopy(f) \/ TearCopy(f)
  \/ EndWalk \/ Checkin \/ Exit

Spec == Init /\ [][Next]_vars

-----------------------------------------------------------------------------
(* Properties.                                                             *)

(* When the walk is over the working copy holds the onsite content of      *)
(* every file, whatever earlier runs that were cut off, updates and merges *)
(* have left there: equal stamps always mean equal contents.               *)
WalkMirrorsOnsite ==
  run \in {"checkin", "done"} => \A f \in Files : wc[f] = onsite[f]

(* The repository never gets a copy cut off in the middle, nor a merge of  *)
(* onsite and offshore changes: a commit publishes onsite versions.        *)
CommitsOnlyOnsite == \A f \in Files : repo[f] \in Edits \cup {Offshore, None}

(* A run that completes has published every versioned file, if no run was  *)
(* cut off or refused since the last commit.                               *)
PublishedUnlessCutOff ==
  run = "done" /\ ~ cutOff
    => \A f \in Versioned : f \in current => repo[f] = onsite[f]

(* compareFilesSVN.py:6-7: "if onsite file is change, then copy to offshore*)
(* svn folder, at last do commit".                                         *)
ChangesAreCommitted ==
  run = "done" => \A f \in Versioned : f \in current => repo[f] = onsite[f]

=============================================================================
