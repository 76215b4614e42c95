---------------------------- MODULE MCLifecycle ----------------------------
(***************************************************************************)
(* Lifecycle with a command, two webhooks and two restarts.                *)
(***************************************************************************)
EXTENDS Lifecycle

CONSTANTS command, hook1, hook2

MCCommands == {command}
MCWebhooks == {hook1, hook2}
=============================================================================
