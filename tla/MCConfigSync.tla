---------------------------- MODULE MCConfigSync ----------------------------
EXTENDS ConfigSync

MCDefault == [profiles |-> <<1>>, default |-> 1, target |-> "t1",
              hotkey |-> "k1", ui |-> "English"]
MCEdits == {Broken,
            [MCDefault EXCEPT !.target = "t2", !.hotkey = "k2"],
            [MCDefault EXCEPT !.hotkey = Unparsable]}

\* Many processes; two with a write, which one of them may miss; one manager
\* and what it launches, with two writes; or with a page that is filled in.
MCBudgets == {[starts |-> 3, writes |-> 0, typings |-> 0],
              [starts |-> 2, writes |-> 1, typings |-> 0],
              [starts |-> 1, writes |-> 2, typings |-> 0],
              [starts |-> 1, writes |-> 1, typings |-> 2]}
=============================================================================
