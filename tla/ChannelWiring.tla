--------------------------- MODULE ChannelWiring ---------------------------
(***************************************************************************)
(* Channels that operators manage in the console and the gateway serves:   *)
(* the admin service's rows, the notice it publishes after a change, and   *)
(* the gateway's reload of handlers, adapters and token refreshers.        *)
(***************************************************************************)
EXTENDS Naturals, FiniteSets

CONSTANTS Channels, Unserved,   \* rows of a platform the gateway skips: legacy ones
          MaxChanges, MaxWiringFaults

ASSUME ChannelWiringAssumption == Unserved \subseteq Channels

VARIABLES
  row,          \* [Channels -> "absent", "off", "on"]
  notices,      \* unica:config_invalidation messages the gateway has not handled
  gateway,      \* "boot", "booting", "deaf" (loaded, not subscribed), "ready", "wiring"
  loaded,       \* the enabled rows of the load being wired
  handlers,     \* channels whose webhook is answered
  adapters,     \* channels in the adapter registry
  refreshed,    \* channels with a token refresh loop
  told,         \* channels changed since the last load, with a notice that is heard
  unheard,      \* channels changed since the last load that no notice told of
  changes, wiringFaults

wiringVars == <<row, notices, gateway, loaded, handlers, adapters, refreshed, told, unheard,
                changes, wiringFaults>>

WiringInit ==
  /\ row = [c \in Channels |-> IF c \in Unserved THEN "on" ELSE "absent"]
  /\ notices = 0 /\ gateway = "boot" /\ loaded = {}
  /\ handlers = {} /\ adapters = {} /\ refreshed = {}
  /\ told = Channels /\ unheard = {} /\ changes = 0 /\ wiringFaults = 0

WiringFault == wiringFaults < MaxWiringFaults /\ wiringFaults' = wiringFaults + 1

\* publishInvalidation after a change of c: only logged when it fails, and nobody
\* hears it before Watch has subscribed.
Announce(c) ==
  \/ /\ gateway \in {"ready", "wiring"}
     /\ \/ notices' = notices + 1 /\ told' = told \cup {c} /\ UNCHANGED <<unheard, wiringFaults>>
        \/ WiringFault /\ unheard' = unheard \cup {c} /\ UNCHANGED <<notices, told>>
  \/ /\ gateway \notin {"ready", "wiring"}
     /\ unheard' = unheard \cup {c} /\ UNCHANGED <<notices, told, wiringFaults>>

Silently(changed) == unheard' = unheard \cup changed /\ UNCHANGED <<notices, told, wiringFaults>>

ChangeRows(changed, state) ==
  /\ changes < MaxChanges /\ changes' = changes + 1
  /\ row' = [c \in Channels |-> IF c \in changed THEN state ELSE row[c]]
  /\ UNCHANGED <<gateway, loaded, handlers, adapters, refreshed>>
ChangeRow(c, state) == ChangeRows({c}, state)

\* A new row is disabled; only served platforms may be created.
CreateChannel(c) == row[c] = "absent" /\ c \notin Unserved /\ ChangeRow(c, "off") /\ Announce(c)

\* updateChannel, or testConnection when its result could be stored.
UpdateChannel(c) == row[c] # "absent" /\ ChangeRow(c, row[c]) /\ Announce(c)

\* Mutant: the row is deleted and nobody is told.
DeleteQuietly(c) == row[c] # "absent" /\ ChangeRow(c, "absent") /\ UNCHANGED <<notices, told, unheard, wiringFaults>>

DeleteChannel(c) == row[c] # "absent" /\ ChangeRow(c, "absent") /\ Announce(c)

\* toggleChannel answers with the updated row and publishes nothing.
ToggleChannel(c) ==
  /\ row[c] # "absent"
  /\ ChangeRow(c, IF row[c] = "on" THEN "off" ELSE "on") /\ Silently({c})

\* deleteTenant takes the rows of a tenant with the rest of its data, enabled or
\* not, and publishes nothing.  Which rows a tenant owns is left open.
DeleteTenant(owned) ==
  /\ owned # {} /\ \A c \in owned : row[c] # "absent"
  /\ ChangeRows(owned, "absent") /\ Silently(owned)

-----------------------------------------------------------------------------
(* setupDynamicChannelPipeline: reload once, then watch.                   *)

\* LoadAll; a row that cannot be decrypted fails the load of all of them.
LoadAll ==
  /\ gateway = "boot" \/ (gateway = "ready" /\ notices > 0)
  /\ notices' = IF gateway = "boot" THEN notices ELSE notices - 1
  /\ told' = {}
  /\ \/ /\ loaded' = {c \in Channels : row[c] = "on"} /\ unheard' = {}
        /\ UNCHANGED wiringFaults
        /\ gateway' = IF gateway = "boot" THEN "booting" ELSE "wiring"
     \/ /\ WiringFault /\ UNCHANGED loaded /\ unheard' = unheard \cup told
        /\ gateway' = IF gateway = "boot" THEN "deaf" ELSE "ready"
  /\ UNCHANGED <<row, handlers, adapters, refreshed, changes>>

\* RegisterChannel and Register for each, Unregister for those that are gone
\* (their refresh loops stay), and the handlers swapped as a whole.
Wire ==
  /\ gateway \in {"booting", "wiring"}
  /\ gateway' = IF gateway = "booting" THEN "deaf" ELSE "ready"
  /\ handlers' = loaded \ Unserved /\ adapters' = loaded \ Unserved
  /\ refreshed' = refreshed \cup (loaded \ Unserved)
  /\ UNCHANGED <<row, notices, loaded, told, unheard, changes, wiringFaults>>

\* Watch; when it cannot subscribe the gateway keeps what it has.
Subscribe ==
  /\ gateway = "deaf" /\ gateway' = "ready"
  /\ UNCHANGED <<row, notices, loaded, handlers, adapters, refreshed, told, unheard, changes, wiringFaults>>

WiringNext ==
  \/ \E c \in Channels : CreateChannel(c) \/ UpdateChannel(c) \/ DeleteChannel(c) \/ ToggleChannel(c)
  \/ \E owned \in SUBSET Channels : DeleteTenant(owned)
  \/ LoadAll \/ Wire \/ Subscribe

WiringSpec == WiringInit /\ [][WiringNext]_wiringVars

-----------------------------------------------------------------------------
Settled == gateway = "ready" /\ notices = 0
Enabled == {c \in Channels : row[c] = "on"} \ Unserved

\* Once every notice is handled the gateway answers a channel's webhook exactly
\* when the channel is enabled, and can send through what it answers, but for
\* the channels whose last change nobody told it of: one that was toggled, or
\* went with its tenant, or whose notice or reload failed or came too early.
ServingFollowsRows ==
  Settled => /\ handlers = adapters
             /\ \A c \in Channels \ unheard : c \in handlers <=> c \in Enabled
=============================================================================
