------------------------- MODULE MCConnectSessions --------------------------
(* TLC instances of ConnectSessions. *)
EXTENDS ConnectSessions, TLC

CONSTANTS g1, g2, a1, a2, a3

Profile(pc, agent, own, flow) == [pc |-> pc, agent |-> agent, own |-> own, flow |-> flow]
Unused == Profile("absent", NoAgent, FALSE, "oauth")

\* Two asks for one agent, the second its own or its owner's, and one for no agent, with
\* nobody confirming.
Crowd(own) ==
    [asks     |-> (a1 :> Profile("new", g1, TRUE, "secret") @@ a2 :> Profile("new", g1, own, "awaiting_app")
                   @@ a3 :> Profile("new", NoAgent, FALSE, "oauth")),
     confirms |-> {}, sweeps |-> Sweeps, landings |-> {}]

\* One session, for an agent or for none yet, confirmed twice.  A session that waits for
\* an OAuth app becomes an OAuth one when the app is there.
Reviewed(agent, flow) ==
    [asks     |-> (a1 :> Profile("new", agent, agent # NoAgent, flow) @@ a2 :> Unused @@ a3 :> Unused),
     confirms |-> Confirms, sweeps |-> {CHOOSE s \in Sweeps : TRUE}, landings |-> Landings]

Instances ==
    {Crowd(own) : own \in BOOLEAN}
      \cup {Reviewed(agent, flow) : agent \in {g1, NoAgent}, flow \in {"secret", "awaiting_app"}}

=============================================================================
