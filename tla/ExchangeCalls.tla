---------------------------- MODULE ExchangeCalls ----------------------------
(* What may become of one request the bots of department 7 send to an        *)
(* exchange through ccxt.  Between sending it and using its answer a bot does *)
(* nothing else, so a request is one step of the bot: the exchange serves it  *)
(* or not, and the bot learns of it or not.                                   *)

\* "ok": served and answered; "refused": not served, an exception is raised;
\* "lost": served, but an exception (a timeout) is raised.
Outcomes == {"ok", "refused", "lost"}

Served(out) == out \in {"ok", "lost"}

AnswerCame(out) == out = "ok"
==============================================================================
