---------------------- MODULE MCNotificationDispatcher ----------------------
(***************************************************************************)
(* Instances of NotificationDispatcher for TLC: two incidents of one check *)
(* and a channel for critical incidents.  The second incident is not       *)
(* critical: it is sent because the channel is assigned to its check.  The *)
(* API of the channels has its own state, the stored secrets: focus is the *)
(* component that runs, and the other rests in an initial state.           *)
(***************************************************************************)
EXTENDS NotificationDispatcher, Channels

VARIABLE focus

CONSTANTS i1, i2, chat

MCIncidents == {i1, i2}
MCInfo == [i \in MCIncidents |->
             [check |-> "k", severity |-> IF i = i1 THEN "critical" ELSE "warning",
              type |-> "api", server |-> "none"]]
MCChannels == {chat}
MCFilters == [c \in MCChannels |->
                [severities |-> {"critical"}, checkIDs |-> {}, types |-> {},
                 servers |-> {}, tags |-> {}]]
MCAssigned == [i \in MCIncidents |-> IF i = i1 THEN {} ELSE {chat}]

DeliveryInit ==
    /\ focus \in {"dispatcher", "channels"} /\ Init /\ ChannelsInit
    /\ focus = "dispatcher" => channels = [i \in ChannelIDs |-> NoChannel]
    /\ focus = "channels" => Cooled = {}

DeliveryNext ==
    \/ focus = "dispatcher" /\ Next /\ UNCHANGED <<focus, channelVars>>
    \/ focus = "channels"   /\ ChannelsNext /\ UNCHANGED <<focus, vars>>

\* Only the component in focus can be fair.
DeliverySpec == DeliveryInit /\ [][DeliveryNext]_<<vars, channelVars, focus>> /\ (focus = "dispatcher" => Fairness)
=============================================================================
