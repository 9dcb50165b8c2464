------------------------------ MODULE FileFetch ------------------------------
(* What a download promises, whatever moves its bytes: chunks are gathered    *)
(* one at a time and never lost again while it lives, the file is published   *)
(* in the library only when every chunk was held at once, the row says        *)
(* complete only after that, and an abandoned download publishes nothing.     *)
EXTENDS FiniteSets

CONSTANT Chunks                     \* the file's chunk indices

VARIABLES held,                     \* chunks whose verified bytes are kept
          status                    \* active, published, complete, aborted

vars == <<held, status>>

TypeOK == /\ held \subseteq Chunks
          /\ status \in {"active", "published", "complete", "aborted"}

Init == held = {} /\ status = "active"

Fetch(c) == /\ status = "active"
            /\ held' = held \cup {c}
            /\ UNCHANGED status

(* The only way into the library: all the chunks, at once.                    *)
Publish == /\ status = "active"
           /\ held = Chunks
           /\ status' = "published"
           /\ UNCHANGED held

Complete == /\ status = "published"
            /\ status' = "complete"
            /\ UNCHANGED held

Abort == /\ status = "active"
         /\ status' = "aborted"
         /\ held' = {}

Next == (\E c \in Chunks: Fetch(c)) \/ Publish \/ Complete \/ Abort

Spec == Init /\ [][Next]_vars
=============================================================================
