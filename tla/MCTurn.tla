------------------------------- MODULE MCTurn -------------------------------
(* One call, named by two messages of one event, one payment, one crash.   *)
(* What the message may be: a merchant question to an audited bot with all *)
(* workers, with a picture and a voice note or without; a refund; a wish   *)
(* for a person; one reply too many; small talk to a bot without workers   *)
(* or auditor; a picture alone.  Amounts such that a charge may exceed its *)
(* hold, and a hold what the merchant has.                                 *)
EXTENDS Turn, TLC

CONSTANT c1

Question ==
  [text |-> TRUE, kinds |-> {}, asksHuman |-> FALSE, raisesMoney |-> FALSE,
   business |-> TRUE, tooMany |-> FALSE, workers |-> WorkerKey, auditor |-> TRUE]

Media == {"audio", "image"}

MCMessages ==
  c1 :> {Question,
         [Question EXCEPT !.kinds = Media],
         [Question EXCEPT !.text = FALSE, !.kinds = {"image"}, !.business = FALSE],
         [Question EXCEPT !.raisesMoney = TRUE],
         [Question EXCEPT !.asksHuman = TRUE],
         [Question EXCEPT !.tooMany = TRUE],
         [Question EXCEPT !.workers = {"voice", "ocr"}],
         [Question EXCEPT !.auditor = FALSE],
         [Question EXCEPT !.business = FALSE, !.workers = {}, !.auditor = FALSE]}
=============================================================================
