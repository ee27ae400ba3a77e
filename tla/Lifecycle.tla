----------------------------- MODULE Lifecycle ------------------------------
(***************************************************************************)
(* What fork, exit and wait promise about processes, whatever the tables,  *)
(* threads and interrupts that implement them: a process is created once,  *)
(* by a live parent; it exits at most once; and only its parent, alive, may*)
(* collect it, once, after it has exited.                                  *)
(***************************************************************************)
CONSTANTS Proc,     \* process identifiers
          Root,     \* the process that exists at the start
          NoParent

VARIABLES life,     \* the stage of each process
          parent

lifeVars == <<life, parent>>

Stage == {"absent", "alive", "zombie", "reaped"}

Init == /\ life = [p \in Proc |-> IF p = Root THEN "alive" ELSE "absent"]
        /\ parent = [p \in Proc |-> NoParent]

\* q forks p.
Create(p, q) == /\ life[p] = "absent" /\ life[q] = "alive"
                /\ life' = [life EXCEPT ![p] = "alive"]
                /\ parent' = [parent EXCEPT ![p] = q]

\* p exits or is killed; the root never does.
Exit(p) == /\ life[p] = "alive" /\ p # Root
           /\ life' = [life EXCEPT ![p] = "zombie"]
           /\ UNCHANGED parent

\* q, the parent of p, waits for it.
Collect(p, q) == /\ life[p] = "zombie" /\ parent[p] = q /\ life[q] = "alive"
                 /\ life' = [life EXCEPT ![p] = "reaped"]
                 /\ parent' = [parent EXCEPT ![p] = NoParent]

Next == \E p \in Proc : \/ Exit(p)
                        \/ \E q \in Proc : Create(p, q) \/ Collect(p, q)

Spec == Init /\ [][Next]_lifeVars

=============================================================================
