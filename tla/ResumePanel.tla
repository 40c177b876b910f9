---------------------------- MODULE ResumePanel ----------------------------
(***************************************************************************)
(* The resume card (components/ResumePanel.tsx): it looks for the          *)
(* published signature and public key, and verifies the files the visitor  *)
(* chooses.  verify() has no single-flight guard: two files may be hashed  *)
(* at once and the verdict written last stays, whichever file it is about. *)
(* `overlapped` records that a file was chosen while another was checked.  *)
(***************************************************************************)
EXTENDS Integers, FiniteSets

CONSTANT MaxFiles   \* bound: files chosen in a behaviour

VARIABLE ui

Verdicts == {"pass", "fail", "unsupported", "error"}

\* sigOut: the two artifacts are being fetched; subtle: the browser has
\* WebCrypto; checks: the files being verified; of: the file `result` is about.
Init == \E subtle \in BOOLEAN :
  ui = [mounted |-> TRUE, subtle |-> subtle, sigOut |-> TRUE, status |-> "checking",
        open |-> FALSE, chosen |-> 0, checks |-> {}, result |-> "", of |-> 0,
        overlapped |-> FALSE]

View == [preview |-> ui.open,
         status  |-> ui.status,
         drop    |-> ui.status = "signed",
         verdict |-> IF ui.status = "signed" THEN ui.result ELSE ""]

OnArtifacts == /\ ui.sigOut
               /\ \E both \in BOOLEAN :
                    ui' = [ui EXCEPT !.sigOut = FALSE,
                             !.status = IF ~ui.mounted THEN @
                                        ELSE IF both THEN "signed" ELSE "unsigned"]
TogglePreview == ui.mounted /\ ui' = [ui EXCEPT !.open = ~@]

verify == LET n == ui.chosen + 1
          IN ui' = IF ~ui.subtle
                   THEN [ui EXCEPT !.chosen = n, !.result = "unsupported", !.of = n]
                   ELSE [ui EXCEPT !.chosen = n, !.result = "", !.of = 0,
                           !.checks = @ \cup {n}, !.overlapped = @ \/ ui.checks # {}]
Drop == ui.mounted /\ View.drop /\ ui.chosen < MaxFiles /\ verify
\* importKey may refuse the curve, the file may not be readable.
OnVerified == \E n \in ui.checks, v \in Verdicts :
  ui' = [ui EXCEPT !.checks = @ \ {n}, !.result = v, !.of = n]

Unmount == ui.mounted /\ ui' = [ui EXCEPT !.mounted = FALSE]

Answered == OnArtifacts \/ OnVerified
Next == Answered \/ TogglePreview \/ Drop \/ Unmount

\* Unless two verifications overlapped, the verdict on screen is about the file
\* chosen last, and there is none while that file is being checked.
ShownIsCurrent == ~ui.overlapped /\ View.verdict # "" => ui.of = ui.chosen /\ ui.checks = {}
Idle == ~ui.sigOut /\ ui.checks = {}
=============================================================================
