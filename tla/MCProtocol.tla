------------------------------ MODULE MCProtocol ------------------------------
(***************************************************************************)
(* Protocol with a few commands: two that race for one job, two for        *)
(* different jobs that share the store with a preview of one of them, and  *)
(* two operations that a client sends under one request id.  A command is  *)
(* sent for any revision that was read, so that one request id also comes  *)
(* with different commands.                                                *)
(***************************************************************************)
EXTENDS Protocol, TLC

Command(id, op, job, body) == [id |-> id, op |-> op, job |-> job, body |-> body]

Freeze == Command("r1", "freeze", "j", "revision")
Import == Command("r2", "import", "j", "batch")
Other  == Command("r2", "add", "k", "point")
Look   == Command("r3", "preview", "j", "batch")
Solve  == Command("r1", "evaluate", "j", "revision")

Racing == {Freeze, Import}
Sharing == {Freeze, Other, Look}
Reusing == {Freeze, Solve}

(* The batch was previewed before any other command. *)
PreviewedFirst(c, s) == c[3] = "batch" => s = <<>>

(* Handlers are interchangeable. *)
Symmetry == Permutations(Handlers)
===============================================================================
