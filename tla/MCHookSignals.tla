--------------------------- MODULE MCHookSignals ---------------------------
(***************************************************************************)
(* Instances of HookSignals for TLC.                                       *)
(***************************************************************************)
EXTENDS HookSignals

Stops(statuses) == {"stop"} \X statuses

EndKinds ==
    Stops({"COMPLETED", "FAILED", "UNKNOWN"})
    \cup {<<"question_pending", "">>}

\* a heartbeat does what a notification does, but for the pause of the sweep
TurnKinds ==
    Stops({"COMPLETED", "NEEDS_INPUT"})
    \cup {<<"notification", "">>, <<"session_end", "">>}

\* versions are only compared with the one in hand, and of the log only the
\* keys matter that may come again
RepeatableKeys ==
    {spool[i].sig : i \in 1..Len(spool)}
    \cup {channel[i] : i \in 1..Len(channel)}
    \cup {sig \in log : sig.run = pane.run /\ sig.turn = pane.turn}

View ==
    <<row.state, hand.view.version = row.version, hand.view.state,
      IF pc = "signal" THEN hand.sig ELSE NoSignal,
      hand.from, saved, log \cap RepeatableKeys, streak, anchor, run, spool,
      listed, channel, output, awaiting, pc, pane, turns, published, approved,
      rejected, heard, asked, crashes>>
=============================================================================
