----------------------------- MODULE FileStore ------------------------------
(***************************************************************************)
(* What a client that uploads a file once gets from the files of NetChat:  *)
(* a download fails until the file is there, and from then on gives the    *)
(* same content for good.  FileTransfer.tla, with its table, its directory *)
(* and its handlers, is shown to implement this specification.             *)
(***************************************************************************)
CONSTANTS Files, Contents, NoContent

VARIABLE served   \* served[f]: what a download of f gives, NoContent: it fails

Init == served = [f \in Files |-> NoContent]

Publish(f, x) == /\ served[f] = NoContent
                 /\ served' = [served EXCEPT ![f] = x]

Next == \E f \in Files, x \in Contents : Publish(f, x)

Spec == Init /\ [][Next]_served
=============================================================================
