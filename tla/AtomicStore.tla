----------------------------- MODULE AtomicStore -----------------------------
(***************************************************************************)
(* What scripts/control_plane_project_state.py promises its callers: the   *)
(* project state is one register.  A caller reads it, builds a new         *)
(* document from what it read, and commits the document in a single step   *)
(* that numbers it one above the document it replaces.  A caller that      *)
(* passes the revision it read (a compare-and-swap caller) commits only    *)
(* over that very revision.                                                *)
(***************************************************************************)
EXTENDS Naturals

CONSTANTS Procs,        \* the processes that write one project's state
          CasCallers,   \* those that pass expected_revision
          Update        \* what a commit can add to a document

VARIABLES reg,          \* [rev, doc]: revision 0 stands for "no file yet"
          seen          \* seen[p]: what p read and builds its document on

vars == <<reg, seen>>

(* A document is the set of the updates that it incorporates.              *)
Document == [rev : Nat, doc : SUBSET Update]

Read(p) ==
    /\ seen' = [seen EXCEPT ![p] = reg]
    /\ UNCHANGED reg

Commit(p) ==
    /\ p \in CasCallers => reg.rev # 0 /\ seen[p].rev = reg.rev
    /\ \E u \in Update :
         reg' = [rev |-> reg.rev + 1, doc |-> seen[p].doc \cup {u}]
    /\ UNCHANGED seen

Init ==
    /\ reg \in Document
    /\ seen = [p \in Procs |-> [rev |-> 0, doc |-> {}]]

Next == \E p \in Procs : Read(p) \/ Commit(p)

Spec == Init /\ [][Next]_vars
==============================================================================
