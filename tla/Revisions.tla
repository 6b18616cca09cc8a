------------------------------ MODULE Revisions ------------------------------
(***************************************************************************)
(* The audit trail of a menu item: record_menu_item_revision in            *)
(* app/modules/catalog/revisions.py, called by the updates of              *)
(* app/modules/catalog/repository.py and app/modules/admin/api.py.         *)
(*                                                                         *)
(* The item is one.  An update loads it, compares what comes in with what  *)
(* it loaded, and commits the row and the revision together; both name     *)
(* only the fields that differ from the loaded item, which may be old.     *)
(***************************************************************************)
EXTENDS Integers, Sequences

CONSTANTS
  Tracked,      \* the fields of TRACKED_FIELDS
  Untracked,    \* fields that are edited without a revision
  Values,       \* values of a field
  Initially,    \* the value that every field is created with
  MaxRevisions, \* bound on the revisions
  Editors       \* requests that are served at one time

ASSUME FieldsAssumption == Tracked \cap Untracked = {}
ASSUME InitiallyAssumption == Initially \in Values
ASSUME RevisionsAssumption == MaxRevisions \in Nat

Fields == Tracked \cup Untracked

VARIABLES
  item,     \* the fields of the menu item
  trail,    \* the rows of "menu_item_revisions" in the order of their commits
  editor    \* per request: the item it loaded and what comes in

editVars == <<item, trail, editor>>

Item == [Fields -> Values]

\* Previous and new values of the fields that a revision names.
Revision == UNION {[before : [names -> Values], after : [names -> Values]] : names \in SUBSET Tracked}

NoEdit == <<>>

EditTypeOK ==
  /\ item \in Item
  /\ trail \in Seq(Revision) /\ Len(trail) <= MaxRevisions
  /\ \A e \in Editors : editor[e] = NoEdit \/
       /\ editor[e].was \in Item
       /\ editor[e].incoming \in UNION {[names -> Values] : names \in SUBSET Fields}

\* The fields of an update that change the item as it was loaded.
Changed(was, incoming) == {f \in DOMAIN incoming : incoming[f] # was[f]}

-----------------------------------------------------------------------------

\* payload.model_dump(exclude_unset=True): any of the fields come in.
EditLoad(e, incoming) ==
  /\ editor[e] = NoEdit
  /\ editor' = [editor EXCEPT ![e] = [was |-> item, incoming |-> incoming]]
  /\ UNCHANGED <<item, trail>>

RecordedAfter(was, incoming) == {}

\* record_menu_item_revision runs before the incoming values are applied.
Recorded(was, incoming) == Changed(was, incoming) \cap Tracked

EditCommit(e) ==
  LET w == editor[e]
      written == Changed(w.was, w.incoming)
      names == Recorded(w.was, w.incoming)
  IN
  /\ w # NoEdit
  /\ item' = [f \in Fields |-> IF f \in written THEN w.incoming[f] ELSE item[f]]
  /\ names # {} => Len(trail) < MaxRevisions
  /\ trail' = IF names = {} THEN trail ELSE Append(trail,
       [before |-> [f \in names |-> w.was[f]], after |-> [f \in names |-> w.incoming[f]]])
  /\ editor' = [editor EXCEPT ![e] = NoEdit]

EditFails(e) ==
  /\ editor[e] # NoEdit
  /\ editor' = [editor EXCEPT ![e] = NoEdit]
  /\ UNCHANGED <<item, trail>>

EditInit ==
  /\ item = [f \in Fields |-> Initially]
  /\ trail = <<>>
  /\ editor = [e \in Editors |-> NoEdit]

EditNext ==
  \E e \in Editors :
    \/ \E names \in SUBSET Fields : \E incoming \in [names -> Values] : EditLoad(e, incoming)
    \/ EditCommit(e) \/ EditFails(e)

EditSpec == EditInit /\ [][EditNext]_editVars

-----------------------------------------------------------------------------
(* Properties *)

Naming(f) == {n \in DOMAIN trail : f \in DOMAIN trail[n].after}

\* "Audit trail of every merchant/admin edit": a tracked field has the value of
\* the revision that named it last, overlapping edits included, and its initial
\* one if no revision named it.
TrailExplainsItem ==
  \A f \in Tracked :
    IF Naming(f) = {} THEN item[f] = Initially
    ELSE \E n \in Naming(f) : item[f] = trail[n].after[f] /\ \A k \in Naming(f) : k <= n
=============================================================================
