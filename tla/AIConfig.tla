------------------------------ MODULE AIConfig ------------------------------
(***************************************************************************)
(* The configuration of AI providers: the documents in MongoDB, each with  *)
(* its API key encrypted (mongo_config_repository.go), the adapter that    *)
(* turns one edit of the whole configuration into a series of writes       *)
(* (config_store_adapter.go), the HTTP handlers that edit and then reload  *)
(* (ai/api.go), the providers the AI service works with (ai/service.go),   *)
(* and the rotation of the encryption key by the tool rotate-ai-keys,      *)
(* which runs beside the server on the same documents and key files.       *)
(*                                                                         *)
(* An API key is a value of Secrets, a ciphertext the pair of a secret and *)
(* the number of the encryption key; it opens under that key only.         *)
(***************************************************************************)
EXTENDS Naturals

CONSTANTS Providers,  \* provider ids
          Secrets,    \* API keys that users type
          Prompts,    \* prompt templates users can add
          Handlers,   \* HTTP requests in flight
          MaxKeys,    \* bound on the encryption keys ever generated
          MaxEdits    \* bound on the edits of the configuration

ASSUME AIConfigAssumption == "masked" \notin Secrets /\ "boot" \notin Handlers

Absent == [secret |-> "none"]
DefaultPrompts == {"builtin"}

VARIABLES
    docs,      \* provider id -> document or Absent
    settings,  \* the prompts of the settings document
    keyFiles,  \* the key in each key file, 0 when there is none
    keys,      \* how many keys were generated
    edits,     \* how many edits were begun
    server,    \* the server: down, boot or up; its key, and what the adapter
               \* has cached: the prompts, and the enabled providers (held)
    todo,      \* what each request has still to do; "boot" is main itself
    active,    \* the providers the AI service works with, and their secrets
    rotation,  \* the rotate-ai-keys process
    lags,      \* history: something since the last reload lets the service lag
    botched    \* history: a rotation failed after a re-encryption, or
               \* wrote over a key file

aiVars == <<docs, settings, keyFiles, keys, edits, server, todo, active, rotation, lags, botched>>

KeyPaths == {"current", "v2"}
NoTask   == [phase |-> "idle", plan |-> {}, cleared |-> {}, prompts |-> {}, view |-> {}, after |-> "idle", stale |-> FALSE]
NoServer == [state |-> "down", key |-> 0, cache |-> {}, held |-> {}]
NoRun    == [phase |-> "idle", left |-> [p \in {} |-> Absent], old |-> 0, new |-> 0, wrote |-> FALSE]
Actors   == Handlers \cup {"boot"}

Present == {p \in Providers : docs[p] # Absent}

\* decryptProvider: the server's own key, and no other one.  The archive of
\* previous keys lives in the process that rotated and is empty in the server.
Opens(k, d) == d # Absent /\ d.under = k

\* List: what does not open is left out.
List(k) == {p \in Present : Opens(k, docs[p])}

\* rebuildProviders: the enabled ones among them, with their secrets.
Enabled(k) == {<<p, docs[p].secret>> : p \in {q \in List(k) : docs[q].enabled}}

AIConfigInit ==
    /\ docs = [p \in Providers |-> Absent] /\ settings = DefaultPrompts
    /\ keyFiles = [f \in KeyPaths |-> 0] /\ keys = 0 /\ edits = 0
    /\ server = NoServer
    /\ todo = [a \in Actors |-> NoTask]
    /\ active = {} /\ rotation = NoRun /\ lags = FALSE /\ botched = FALSE

-----------------------------------------------------------------------------
(***************************************************************************)
(* The edits of the configuration: functions from the listed providers and *)
(* the prompts to new ones.  A provider in the configuration is            *)
(* [secret, default, enabled].                                             *)
(***************************************************************************)
Listed(k) == [p \in List(k) |-> [secret |-> docs[p].secret, default |-> docs[p].default, enabled |-> docs[p].enabled]]

\* The enabled providers of a configuration, with their secrets.
Serving(cfg) == {<<p, cfg[p].secret>> : p \in {q \in DOMAIN cfg : cfg[q].enabled}}

WithoutDefault(cfg) == [p \in DOMAIN cfg |-> [cfg[p] EXCEPT !.default = FALSE]]
With(cfg, p, c) == [q \in DOMAIN cfg \cup {p} |-> IF q = p THEN c ELSE cfg[q]]

\* POST /providers: a duplicate is refused, a new default unsets the others.
AddProvider(cfg, p, c) ==
    IF p \in DOMAIN cfg THEN {} ELSE {With(IF c.default THEN WithoutDefault(cfg) ELSE cfg, p, c)}

\* Storing what was typed even when it is the mask, for a mutant.
KeptSecretTyped(old, typed) == typed

\* PUT /providers/{id}: an empty or masked key keeps the stored one.
KeptSecret(old, typed) == IF typed = "masked" THEN old ELSE typed

EditProvider(cfg, p, c) ==
    IF p \notin DOMAIN cfg THEN {}
    ELSE {With(IF c.default THEN WithoutDefault(cfg) ELSE cfg, p, [c EXCEPT !.secret = KeptSecret(cfg[p].secret, @)])}

DropProvider(cfg, p) == IF p \notin DOMAIN cfg THEN {} ELSE {[q \in DOMAIN cfg \ {p} |-> cfg[q]]}

\* The provider of the environment becomes the default; when it exists its
\* values are replaced only on request.  The loop stops at the provider, so the
\* ones listed after it keep their flag.
BootstrapProvider(cfg, p, c, reset, before) ==
    LET cleared == [q \in DOMAIN cfg |-> IF q \in before THEN [cfg[q] EXCEPT !.default = FALSE] ELSE cfg[q]]
    IN  IF p \notin DOMAIN cfg THEN With(WithoutDefault(cfg), p, c)
        ELSE With(cleared, p, IF reset THEN c ELSE [cfg[p] EXCEPT !.default = TRUE])

-----------------------------------------------------------------------------
(***************************************************************************)
(* Update of the adapter, under its lock: list, apply the edit, then write *)
(* provider after provider, delete the ones gone, save the settings.  The  *)
(* first error ends it and leaves the rest undone.                         *)
(***************************************************************************)
Op(kind, p, c) == [kind |-> kind, p |-> p, c |-> c]
NoConfig == [secret |-> "", default |-> FALSE, enabled |-> FALSE]

WriteOps(existing, cfg) ==
    {Op(IF p \in existing THEN "update" ELSE "insert", p, cfg[p]) : p \in DOMAIN cfg}
      \cup {Op("delete", p, NoConfig) : p \in existing \ DOMAIN cfg}
      \cup {Op("settings", "", NoConfig)}

\* The listed providers come in no particular order, a new one behind them.
Rank == [update |-> 1, insert |-> 2, delete |-> 3, settings |-> 4]

\* Between clearDefault and the write it is for there is no other.
NextOps(t) ==
    IF t.cleared # {} THEN t.cleared
    ELSE {op \in t.plan : \A other \in t.plan : Rank[op.kind] <= Rank[other.kind]}

\* The settings may fail to load; the cached ones are used instead.
SettingsSeen(fails) == IF fails THEN server.cache ELSE IF settings = {} THEN DefaultPrompts ELSE settings

\* Whoever read the configuration before a change will swap in an old one.
Overtaken == [a \in Actors |-> IF todo[a].phase = "swap" THEN [todo[a] EXCEPT !.stale = TRUE] ELSE todo[a]]

\* What Get and Update have read of the documents they also keep.
Refreshed(prompts) == [server EXCEPT !.cache = prompts, !.held = Enabled(server.key)]

\* An update begins: the list, the settings, the edit.  Afterwards the handler
\* goes on to "get", or is done ("idle").
BeginEdit(a, cfg, seen, prompts, after) ==
    /\ edits < MaxEdits /\ edits' = edits + 1
    /\ server' = Refreshed(seen)
    /\ todo' = [Overtaken EXCEPT ![a] =
                   [NoTask EXCEPT !.phase = "write", !.prompts = prompts, !.view = Serving(cfg), !.after = after,
                                  !.plan = WriteOps(List(server.key), cfg)]]
    /\ UNCHANGED <<docs, settings, keyFiles, keys, active, rotation, lags, botched>>

LockFree == \A a \in Actors : todo[a].phase # "write"
Configs  == [secret : Secrets, default : BOOLEAN, enabled : BOOLEAN]
Edits    == [secret : Secrets \cup {"masked"}, default : BOOLEAN, enabled : BOOLEAN]
Ready(h) == server.state = "up" /\ todo[h].phase = "idle" /\ LockFree

handleAIProviders(h) ==
    /\ Ready(h)
    /\ \E p \in Providers, c \in Configs : \E cfg \in AddProvider(Listed(server.key), p, c) :
          BeginEdit(h, cfg, SettingsSeen(FALSE), SettingsSeen(FALSE), "get")

handleAIProviderByID(h) ==
    /\ Ready(h)
    /\ \E p \in Providers, c \in Edits :
          \E cfg \in EditProvider(Listed(server.key), p, c) \cup DropProvider(Listed(server.key), p) :
             BeginEdit(h, cfg, SettingsSeen(FALSE), SettingsSeen(FALSE), "get")

\* The providers are written again as listed, and the service is not reloaded.
handleAIPrompts(h) ==
    /\ Ready(h)
    /\ \E q \in Prompts \cup DefaultPrompts :
          LET seen == SettingsSeen(FALSE)
          IN  BeginEdit(h, Listed(server.key), seen, IF q \in seen THEN seen \ {q} ELSE seen \cup {q}, "idle")

\* PUT /config changes the settings; the providers are written again as listed.
handleAIConfig(h) == Ready(h) /\ BeginEdit(h, Listed(server.key), SettingsSeen(FALSE), SettingsSeen(FALSE), "get")

\* A clearDefault that finds nothing to clear, for the mutant of ProvidersSound.
clearDefaultForgotten == docs

-----------------------------------------------------------------------------
clearDefault == [p \in Providers |-> IF docs[p] = Absent THEN Absent ELSE [docs[p] EXCEPT !.default = FALSE]]

encryptProvider(c) == [secret |-> c.secret, under |-> server.key, default |-> c.default, enabled |-> c.enabled]

\* Nobody else creates or deletes documents meanwhile, so the test whether the
\* document exists is made with the write that follows it.
Applies(op) ==
    CASE op.kind \in {"update", "delete"} -> docs[op.p] # Absent
      [] op.kind = "insert"              -> docs[op.p] = Absent
      [] op.kind = "settings"            -> TRUE

Effect(op) ==
    CASE op.kind \in {"update", "insert"} -> [docs EXCEPT ![op.p] = encryptProvider(op.c)]
      [] op.kind = "delete"              -> [docs EXCEPT ![op.p] = Absent]
      [] op.kind = "settings"            -> docs

\* A default provider takes two calls: its first one clears the flags.
Clears(a, op) == op.c.default /\ todo[a].cleared = {}

AfterCall(a, op) ==
    IF Clears(a, op) THEN [todo[a] EXCEPT !.cleared = {op}]
    ELSE IF op.kind # "settings" THEN [todo[a] EXCEPT !.plan = todo[a].plan \ {op}, !.cleared = {}]
    ELSE [NoTask EXCEPT !.phase = todo[a].after]

\* One repository call of an update: it succeeds, or it fails and ends the
\* update; a write that timed out may have been applied.
WriteStep(a) ==
    /\ todo[a].phase = "write"
    /\ \E op \in NextOps(todo[a]), outcome \in {"done", "refused", "lost", "late"} :
          LET applied == outcome \in {"done", "late"} IN
          /\ applied => Applies(op)
          /\ outcome = "refused" => ~Applies(op)
          /\ docs' = IF ~applied THEN docs ELSE IF Clears(a, op) THEN clearDefault ELSE Effect(op)
          /\ settings' = IF op.kind = "settings" /\ applied THEN todo[a].prompts ELSE settings
          /\ todo' = [todo EXCEPT ![a] = IF outcome = "done" THEN AfterCall(a, op) ELSE NoTask]
          /\ server' = IF op.kind = "settings" THEN [server EXCEPT !.cache = todo[a].prompts, !.held = todo[a].view]
                                               ELSE server
          /\ lags' = (lags \/ outcome # "done")
    /\ UNCHANGED <<keyFiles, keys, edits, active, rotation, botched>>

\* Get of the adapter: when the documents cannot be listed, the configuration
\* it has cached, of the last listing or edit, is taken for the current one.
Got(listed) == IF listed THEN Enabled(server.key) ELSE server.held

\* The worker's ticks and the GET requests read the configuration as well.
Get ==
    /\ server.state = "up" /\ LockFree
    /\ server' = Refreshed(SettingsSeen(FALSE))
    /\ UNCHANGED <<docs, settings, keyFiles, keys, edits, todo, active, rotation, lags, botched>>

\* After its update a handler reloads: it reads the configuration, then swaps
\* the service's map.  Other requests fit between the two.
ReloadGet(h) ==
    /\ todo[h].phase = "get" /\ LockFree
    /\ \E listed \in BOOLEAN :
          /\ todo' = [todo EXCEPT ![h] = [@ EXCEPT !.phase = "swap", !.view = Got(listed),
                                                  !.stale = (Got(listed) # Enabled(server.key))]]
          /\ server' = IF listed THEN Refreshed(SettingsSeen(FALSE)) ELSE server
    /\ UNCHANGED <<docs, settings, keyFiles, keys, edits, active, rotation, lags, botched>>

ReloadSwap(h) ==
    /\ todo[h].phase = "swap"
    /\ active' = todo[h].view
    /\ lags' = todo[h].stale
    /\ todo' = [todo EXCEPT ![h] = NoTask]
    /\ UNCHANGED <<docs, settings, keyFiles, keys, edits, server, rotation, botched>>

-----------------------------------------------------------------------------
(***************************************************************************)
(* Starting the server: the encryption key is read from its file, or made  *)
(* when the file has none; the provider of the environment is written;     *)
(* then the service loads the providers.                                   *)
(***************************************************************************)
loadOrCreateEncKey(f) ==
    /\ keyFiles[f] = 0 => keys < MaxKeys
    /\ keyFiles' = [keyFiles EXCEPT ![f] = IF @ = 0 THEN keys + 1 ELSE @]
    /\ keys' = IF keyFiles[f] = 0 THEN keys + 1 ELSE keys

StartServer ==
    /\ server.state = "down"
    /\ \E f \in KeyPaths :
          /\ f = "v2" => keyFiles[f] # 0 /\ rotation.phase = "idle"   \* AI_ENCRYPTION_KEY_PATH, after a rotation
          /\ loadOrCreateEncKey(f)
          /\ server' = [state |-> "boot", key |-> keyFiles'[f], cache |-> DefaultPrompts, held |-> {}]
    /\ UNCHANGED <<docs, settings, edits, todo, active, rotation, lags, botched>>

bootstrapAIProviderFromEnv ==
    /\ server.state = "boot" /\ LockFree
    /\ \E p \in Providers, s \in Secrets, reset, fails \in BOOLEAN, before \in SUBSET List(server.key) :
          BeginEdit("boot", BootstrapProvider(Listed(server.key), p, [secret |-> s, default |-> TRUE, enabled |-> TRUE], reset, before),
                    SettingsSeen(fails), SettingsSeen(fails), "idle")

NewAIService ==
    /\ server.state = "boot" /\ LockFree
    /\ \E listed \in BOOLEAN :
          /\ server' = [(IF listed THEN Refreshed(SettingsSeen(FALSE)) ELSE server) EXCEPT !.state = "up"]
          /\ active' = Got(listed)
          /\ lags' = (Got(listed) # Enabled(server.key))
    /\ UNCHANGED <<docs, settings, keyFiles, keys, edits, todo, rotation, botched>>

CrashServer ==
    /\ server.state # "down"
    /\ server' = NoServer
    /\ todo' = [a \in Actors |-> NoTask] /\ active' = {}
    /\ UNCHANGED <<docs, settings, keyFiles, keys, edits, rotation, lags, botched>>

-----------------------------------------------------------------------------
(***************************************************************************)
(* rotate-ai-keys: a process of its own, whose repository starts at        *)
(* version 1 again, so that without -key-path the new key always goes to   *)
(* the file of version 2.  On an error the new key file is deleted.        *)
(***************************************************************************)
RotateStart ==
    /\ rotation.phase = "idle" /\ keys < MaxKeys
    /\ \E f \in KeyPaths :
          /\ keyFiles[f] # 0
          /\ keyFiles' = [keyFiles EXCEPT !["v2"] = keys + 1]
          /\ keys' = keys + 1
          /\ rotation' = [phase |-> "run", left |-> [p \in Present |-> [secret |-> docs[p].secret, under |-> docs[p].under]],
                         old |-> keyFiles[f], new |-> keys + 1, wrote |-> FALSE]
          /\ botched' = (botched \/ keyFiles["v2"] # 0)
    /\ UNCHANGED <<docs, settings, edits, server, todo, active, lags>>

\* One provider: what the cursor read is decrypted with the old key, encrypted
\* with the new one and written back, over whatever was stored meanwhile.
RotateOne(p) ==
    /\ rotation.phase = "run" /\ p \in DOMAIN rotation.left
    /\ Opens(rotation.old, rotation.left[p]) /\ docs[p] # Absent
    /\ docs' = [docs EXCEPT ![p].secret = rotation.left[p].secret, ![p].under = rotation.new]
    /\ rotation' = [rotation EXCEPT !.left = [q \in DOMAIN @ \ {p} |-> @[q]], !.wrote = TRUE]
    /\ lags' = TRUE /\ todo' = Overtaken
    /\ UNCHANGED <<settings, keyFiles, keys, edits, server, active, botched>>

\* A provider that does not open, that is gone, or whose write fails.
RotateFail ==
    /\ rotation.phase = "run" /\ DOMAIN rotation.left # {}
    /\ keyFiles' = [keyFiles EXCEPT !["v2"] = 0]
    /\ botched' = (botched \/ rotation.wrote)
    /\ rotation' = NoRun
    /\ UNCHANGED <<docs, settings, keys, edits, server, todo, active, lags>>

RotateDone ==
    /\ rotation.phase = "run" /\ DOMAIN rotation.left = {}
    /\ rotation' = NoRun
    /\ UNCHANGED <<docs, settings, keyFiles, keys, edits, server, todo, active, lags, botched>>

AIConfigNext ==
    \/ StartServer \/ bootstrapAIProviderFromEnv \/ NewAIService \/ CrashServer \/ Get
    \/ \E h \in Handlers : \/ handleAIProviders(h) \/ handleAIProviderByID(h) \/ handleAIPrompts(h) \/ handleAIConfig(h)
                           \/ ReloadGet(h) \/ ReloadSwap(h)
    \/ \E a \in Actors : WriteStep(a)
    \/ RotateStart \/ RotateFail \/ RotateDone
    \/ \E p \in Providers : RotateOne(p)

AIConfigSpec == AIConfigInit /\ [][AIConfigNext]_aiVars
-----------------------------------------------------------------------------
\* At most one provider is the default, in the middle of an update and after a
\* failed one too: every write of the flag is preceded by clearDefault.
AtMostOneDefault == \A p, q \in Present : docs[p].default /\ docs[q].default => p = q

\* When no request is under way the AI service works with the enabled providers
\* of the documents and their keys, unless since its last reload an update
\* ended in an error (a handler then skips the reload) or a rotation
\* re-encrypted a document, or that reload overlapped another edit or could not
\* list the documents and took a cached configuration that differs from them.
ActiveIsCurrent ==
    server.state = "up" /\ ~lags /\ (\A a \in Actors : todo[a].phase = "idle")
        => active = Enabled(server.key)

\* What is stored as an API key was typed by a user: the mask that the API
\* shows in its place never comes back as one.
NoMaskStored == \A p \in Present : docs[p].secret \in Secrets

\* Every stored API key can be decrypted with a key that some file holds.
KeysRecoverable == \A p \in Present : \E f \in KeyPaths : keyFiles[f] = docs[p].under

(***************************************************************************)
(* The provider documents stay sound under failing writes, restarts, a key *)
(* rotation beside the server and overlapping requests.  A stored key is   *)
(* lost only to a rotation that failed after its first re-encryption (its  *)
(* rollback deletes the new key file, not what was encrypted with it) or   *)
(* that wrote over a key file (mongo_config_repository.go RotateKey).      *)
(***************************************************************************)
ProvidersSound ==
    /\ AtMostOneDefault /\ ActiveIsCurrent /\ NoMaskStored
    /\ ~botched => KeysRecoverable
=============================================================================
