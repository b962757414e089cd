--------------------------- MODULE MCNanoRuntime ---------------------------
(* The plugin sets the runs of NanoRuntime use.                             *)
EXTENDS NanoRuntime

(* A hub that always answers in the end.                                    *)
HubAlone == <<[HubPlugin EXCEPT !.hangs = FALSE]>>

(* What cmd_run registers, and a plugin that answers and tells the others.  *)
BuiltInsAndTeller ==
  <<HubPlugin, AutoReplyPlugin,
    [subscriptions |-> Kinds \ {"MessageSent", "Custom"},
     returns |-> {<<"EmitEvent", "SendMessage">>}, hangs |-> FALSE]>>

(* The plugins of the runs leave receipts alone.                            *)
ASSUME NoneAnswersReceipts == ReceiptsUnanswered
=============================================================================
