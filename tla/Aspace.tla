------------------------------- MODULE Aspace -------------------------------
(***************************************************************************)
(* kernel/aspace.c: the table of address spaces and its reference counts.  *)
(*                                                                         *)
(* The table is a value: a function from the ids of the used slots to      *)
(* their kind and reference count.  Ids come from a counter and are never  *)
(* reused, so an id names at most one slot and find_slot(id) succeeds      *)
(* exactly for the ids in the function's domain.  Labels, page roots and   *)
(* page contents are left out; a root is identified with its id.           *)
(***************************************************************************)
EXTENDS Integers, FiniteSets

CONSTANT AspaceMax          \* ASPACE_MAX: slots of aspace_table

ASSUME AspaceMaxAssumption == AspaceMax \in Nat \ {0}

KernelAspace == 1           \* the id aspace_init gives the kernel's space
AspaceRecord == [kind : {"kernel", "user"}, refcount : Nat]
NoAspace == 0               \* what a failed create or clone returns

\* aspace_init: the kernel's space is the first entry, with one reference.
aspace_init == [a \in {KernelAspace} |-> [kind |-> "kernel", refcount |-> 1]]

\* aspace_retain leaves the table alone when the id is unknown.
aspace_retain(tbl, id) ==
  IF id \in DOMAIN tbl THEN [tbl EXCEPT ![id].refcount = @ + 1] ELSE tbl

\* aspace_release frees the slot at zero, except the kernel's.
aspace_release(tbl, id) ==
  IF id \notin DOMAIN tbl THEN tbl
  ELSE LET n == IF tbl[id].refcount > 0 THEN tbl[id].refcount - 1 ELSE 0
       IN IF n = 0 /\ id # KernelAspace
          THEN [a \in DOMAIN tbl \ {id} |-> tbl[a]]
          ELSE [tbl EXCEPT ![id].refcount = n]

HasFreeSlot(tbl) == Cardinality(DOMAIN tbl) < AspaceMax

\* aspace_create when a slot is free and clone_kernel_root gets its pages.
aspace_create(tbl, id, kind) ==
  [a \in DOMAIN tbl \cup {id} |->
     IF a = id THEN [kind |-> kind, refcount |-> 1] ELSE tbl[a]]

\* Mutant: a kernel parent's space is cloned like any other.
aspace_fork_clone_all(tbl, fresh, parent) ==
  IF parent \in DOMAIN tbl /\ HasFreeSlot(tbl)
  THEN [id |-> fresh, tbl |-> aspace_create(tbl, fresh, tbl[parent].kind)]
  ELSE [id |-> NoAspace, tbl |-> tbl]

\* aspace_fork_clone: kernel tasks share one space, others get a fresh one.
aspace_fork_clone(tbl, fresh, parent) ==
  IF parent \notin DOMAIN tbl THEN [id |-> NoAspace, tbl |-> tbl]
  ELSE IF tbl[parent].kind = "kernel"
       THEN [id |-> parent, tbl |-> aspace_retain(tbl, parent)]
       ELSE IF HasFreeSlot(tbl)
            THEN [id |-> fresh, tbl |-> aspace_create(tbl, fresh, tbl[parent].kind)]
            ELSE [id |-> NoAspace, tbl |-> tbl]

\* aspace_switch: the page root stays as it is when the id is unknown.
aspace_switch(tbl, root, id) == IF id \in DOMAIN tbl THEN id ELSE root
=============================================================================
