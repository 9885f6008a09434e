-------------------------- MODULE MCTelegramPolling --------------------------
(* Small instances of TelegramPolling for TLC.                             *)
EXTENDS TelegramPolling

(* The editor opens a prompt, answers it and asks for a menu.              *)
PromptAnswerMenu == <<"prompt", "answer", "menu">>
=============================================================================
