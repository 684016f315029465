----------------------------- MODULE Channels ------------------------------
(***************************************************************************)
(* Notification channels: the handlers of notify/api.go over the adapter   *)
(* (channel_store_adapter.go) and the MongoDB repository.  An update and a *)
(* toggle are a read and a replacement of the whole document, made by      *)
(* requests that overlap.  The API shows a channel with its secrets masked *)
(* and its webhook address shortened; a form sends back what it was shown. *)
(***************************************************************************)
EXTENDS Naturals, FiniteSets

CONSTANTS ChannelIDs,   \* channels
          Tokens,       \* SMTP passwords, bot tokens, routing keys users type
          ChannelCalls  \* requests in flight

Mask  == "masked"    \* what the API shows of a secret that is set
Empty == "empty"     \* a field without a value
ASSUME ChannelsAssumption == Mask \notin Tokens

VARIABLES
    channels,    \* id -> the stored document, or NoChannel
    channelCall, \* what each request is in the middle of
    typed,       \* history: the secret typed last, by channel
    mixed,       \* history: channels where a read-and-replace overlapped another
    shortened,   \* history: channels whose form was sent back with its address
    copied       \* history: channels that were once created with a masked secret

channelVars == <<channels, channelCall, typed, mixed, shortened, copied>>

\* A document holds every setting twice: as a field of its own and in the map
\* "config" that was all an earlier version wrote.
ChannelDoc(token, config, url, enabled) == [token |-> token, config |-> config, url |-> url, enabled |-> enabled]
NoChannel     == ChannelDoc(Empty, Empty, "none", FALSE)
NoChannelCall == [op |-> "idle"]
Configured    == {i \in ChannelIDs : channels[i] # NoChannel}

firstNonEmpty(primary, fallback) == IF primary # Empty THEN primary ELSE fallback

modelToChannel(doc) == [token |-> firstNonEmpty(doc.token, doc.config), url |-> doc.url, enabled |-> doc.enabled]

channelToModel(ch) == ChannelDoc(ch.token, ch.token, ch.url, ch.enabled)

ChannelsInit ==
    /\ channels \in [ChannelIDs -> {NoChannel} \cup {ChannelDoc(Empty, t, "full", TRUE) : t \in Tokens}]
    /\ channelCall = [r \in ChannelCalls |-> NoChannelCall]
    /\ typed = [i \in ChannelIDs |-> modelToChannel(channels[i]).token]
    /\ mixed = {} /\ shortened = {} /\ copied = {}

\* What the API shows: secrets masked, the address without what identifies it.
SafeView(ch) == [token |-> IF ch.token = Empty THEN Empty ELSE Mask, url |-> "short", enabled |-> ch.enabled]

\* Taking an empty field for "unchanged", for the mutant of ChannelSecretsKept.
MergedTokenKept(stored, sent) == IF sent \in {Mask, Empty} THEN stored ELSE sent

\* An empty field clears the secret, a masked one keeps it.
MergedToken(stored, sent) == IF sent = Mask THEN stored ELSE sent

\* Whoever read this channel and has not replaced it yet.
Holding(i) == {r \in ChannelCalls : channelCall[r].op \in {"update", "toggle"} /\ channelCall[r].id = i}

-----------------------------------------------------------------------------
\* POST: the adapter stores what it gets, the masked field of a channel that is
\* being copied included; only a duplicate id or an unknown type is refused.
CreateChannel ==
    /\ \E i \in ChannelIDs \ Configured, t \in Tokens \cup {Empty, Mask}, e \in BOOLEAN :
          /\ channels' = [channels EXCEPT ![i] = channelToModel([token |-> t, url |-> "full", enabled |-> e])]
          /\ typed' = [typed EXCEPT ![i] = t]
          /\ mixed' = IF Holding(i) = {} THEN mixed \ {i} ELSE mixed \cup {i}
          /\ shortened' = shortened \ {i}
          /\ copied' = IF t = Mask THEN copied \cup {i} ELSE copied
    /\ UNCHANGED channelCall

\* PUT, first half: the document is read and the body merged into it.
UpdateChannelGet(r) ==
    /\ channelCall[r] = NoChannelCall
    /\ \E i \in Configured :
       LET existing == modelToChannel(channels[i]) IN
       \E t \in Tokens \cup {Empty, Mask}, url \in {"full", SafeView(existing).url}, e \in BOOLEAN :
          /\ channelCall' = [channelCall EXCEPT ![r] =
                 [op |-> "update", id |-> i, sent |-> t,
                  doc |-> channelToModel([token |-> MergedToken(existing.token, t), url |-> url, enabled |-> e])]]
          /\ mixed' = IF Holding(i) = {} THEN mixed ELSE mixed \cup {i}
    /\ UNCHANGED <<channels, typed, shortened, copied>>

\* Second half: the merged document replaces whatever is stored now.
UpdateChannelReplace(r) ==
    /\ channelCall[r].op = "update"
    /\ LET i == channelCall[r].id IN
       \/ i \notin Configured /\ UNCHANGED <<channels, typed, shortened>>      \* not found, or an error
       \/ /\ i \in Configured
          /\ channels' = [channels EXCEPT ![i] = channelCall[r].doc]
          /\ typed' = IF channelCall[r].sent = Mask THEN typed ELSE [typed EXCEPT ![i] = channelCall[r].sent]
          /\ shortened' = IF channelCall[r].doc.url = "short" THEN shortened \cup {i} ELSE shortened \ {i}
    /\ channelCall' = [channelCall EXCEPT ![r] = NoChannelCall]
    /\ UNCHANGED <<mixed, copied>>

ToggleGet(r) ==
    /\ channelCall[r] = NoChannelCall
    /\ \E i \in Configured, e \in BOOLEAN :
          /\ channelCall' = [channelCall EXCEPT ![r] =
                 [op |-> "toggle", id |-> i, doc |-> channelToModel([modelToChannel(channels[i]) EXCEPT !.enabled = e])]]
          /\ mixed' = IF Holding(i) = {} THEN mixed ELSE mixed \cup {i}
    /\ UNCHANGED <<channels, typed, shortened, copied>>

ToggleReplace(r) ==
    /\ channelCall[r].op = "toggle"
    /\ LET i == channelCall[r].id IN
       channels' = IF i \in Configured THEN [channels EXCEPT ![i] = channelCall[r].doc] ELSE channels
    /\ channelCall' = [channelCall EXCEPT ![r] = NoChannelCall]
    /\ UNCHANGED <<typed, mixed, shortened, copied>>

DeleteChannel ==
    /\ \E i \in Configured : channels' = [channels EXCEPT ![i] = NoChannel]
    /\ UNCHANGED <<channelCall, typed, mixed, shortened, copied>>

\* A request that times out or loses its connection; a restart is all of them.
AbandonChannelCall(r) ==
    /\ channelCall[r] # NoChannelCall
    /\ channelCall' = [channelCall EXCEPT ![r] = NoChannelCall]
    /\ UNCHANGED <<channels, typed, mixed, shortened, copied>>

\* What a request to one channel goes through.
handleChannelByID(r) ==
    \/ UpdateChannelGet(r) \/ UpdateChannelReplace(r)
    \/ ToggleGet(r) \/ ToggleReplace(r) \/ AbandonChannelCall(r)

ChannelsNext == CreateChannel \/ DeleteChannel \/ \E r \in ChannelCalls : handleChannelByID(r)

ChannelsSpec == ChannelsInit /\ [][ChannelsNext]_channelVars
-----------------------------------------------------------------------------
(***************************************************************************)
(* A channel delivers with the secret that was typed last: a form that     *)
(* sends the mask back, a toggle and a failed request leave it alone,      *)
(* unless two requests had read the channel at the same time.  Even then   *)
(* the mask becomes its secret only when a channel was created from what   *)
(* the API shows, which is stored as it is.  And its address is the one    *)
(* typed unless a form was sent back with the address it was shown.        *)
(***************************************************************************)
ChannelSecretsKept ==
    \A i \in Configured :
        LET ch == modelToChannel(channels[i]) IN
        /\ ch.token = Mask => i \in copied
        /\ i \notin mixed => ch.token = typed[i]
        /\ i \notin mixed \cup shortened => ch.url = "full"
=============================================================================
