--------------------------- MODULE MCAttachments ---------------------------
(***************************************************************************)
(* Two posts with files and a plain one, an upload to a task and one to    *)
(* the message of each post with files (one of which is full), for a team  *)
(* whose quota holds some of them; and two uploads to one task.            *)
(***************************************************************************)
EXTENDS Attachments, TLC

CONSTANTS p, q, w, t, m, n,   \* uploads
          x, y, v, z          \* targets: the messages of p, q and w, and a task

MCKind == (p :> "post") @@ (q :> "post") @@ (w :> "post")
          @@ (t :> "task") @@ (m :> "message") @@ (n :> "message")
MCFiles == (p :> <<1, 1>>) @@ (q :> <<2>>) @@ (w :> <<>>)
           @@ (t :> <<1>>) @@ (m :> <<1>>) @@ (n :> <<1>>)
MCTarget == (p :> x) @@ (q :> y) @@ (w :> v) @@ (t :> z) @@ (m :> y) @@ (n :> x)

TwinKind == (p :> "task") @@ (q :> "task")
TwinFiles == (p :> <<1>>) @@ (q :> <<1>>)
TwinTarget == (p :> z) @@ (q :> z)
=============================================================================
