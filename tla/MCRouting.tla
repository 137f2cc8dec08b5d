----------------------------- MODULE MCRouting ------------------------------
EXTENDS Routing, TLC

\* provider, priority, auto-fallback, reserve, overage protection
Setting(provider, priority, fallback, reserve, overage) ==
    [provider |-> provider, priority |-> priority, fallback |-> fallback,
     reserve |-> reserve, overage |-> overage]

\* Two pay-as-you-go accounts share a tier.
Payg == <<Setting("zai", 0, FALSE, "none", FALSE), Setting("nanogpt", 0, FALSE, "soft", FALSE),
          Setting("zai", 1, FALSE, "none", FALSE)>>

\* Sessions on two tiers, either may fall back; a pay-as-you-go account last.
Claude == <<Setting("anthropic", 0, TRUE, "hard", TRUE), Setting("anthropic", 1, TRUE, "soft", FALSE),
            Setting("zai", 2, FALSE, "none", FALSE)>>

Fine == [full |-> FALSE, low |-> FALSE, resets |-> 1, known |-> TRUE]
Tight == [full |-> TRUE, low |-> TRUE, resets |-> 2, known |-> TRUE]
MCUsage == {Fine, Tight}

Blank == Row("here")

\* Turns among new accounts; a window that is over beside a running session; a
\* limited account beside one yet to be added.
MCScenes ==
    {[pool |-> Payg, rows |-> <<Blank, Blank, Blank>>, usage |-> <<Missing, Tight, Missing>>,
      left |-> [requests |-> 3, breaks |-> 0, edits |-> 0, ticks |-> 0]],
     [pool |-> Claude, rows |-> <<[Blank EXCEPT !.reset = 0],
                                  [Blank EXCEPT !.start = 0, !.reset = 1], Row("gone")>>,
      usage |-> <<Fine, Missing, Missing>>, left |-> [requests |-> 2, breaks |-> 0, edits |-> 0, ticks |-> 1]],
     [pool |-> Claude, rows |-> <<[Blank EXCEPT !.start = 0, !.until = 1], Row("new"), Blank>>,
      usage |-> <<Fine, Tight, Missing>>, left |-> [requests |-> 2, breaks |-> 2, edits |-> 1, ticks |-> 0]]}

\* Clients, with and without a pin, and the auto-refresh scheduler.
Meta(pin, strict, bypass) == [pin |-> pin, strict |-> strict, bypass |-> bypass]
MCMetas == {Meta(None, FALSE, FALSE), Meta(2, FALSE, FALSE), Meta(2, TRUE, TRUE)}

\* Requests are interchangeable.
Tasks == Permutations(Requests)
=============================================================================
