---------------------------- MODULE ConfigStore ----------------------------
(***************************************************************************)
(* The configuration in force, the pool built from it and the file it is   *)
(* loaded from and saved to (state.rs, config.rs), under the requests of   *)
(* the admin API that change them (admin/routes.rs).  Every request is a   *)
(* task of its own: between two of its steps - one per lock held, await or *)
(* file operation - other requests run, writes fail and the process ends.  *)
(*                                                                         *)
(* A relay is its id, a token for what the request that wrote it said of   *)
(* it, the user name it logs in with, its switch and its password; of the  *)
(* other settings only the weighted strategy is kept, and of validation    *)
(* the two rules about the relays alone: the rules about one setting, and  *)
(* those that tie other settings to each other (authentication required    *)
(* and its users, overrides and the relays they name, the submission mode  *)
(* and the queue, validation and its channels), are left out.              *)
(***************************************************************************)
EXTENDS Integers, FiniteSets

CONSTANTS
  Ids,          \* relay ids
  FirstRelays,  \* those configured at first
  Users,        \* names relays log in with
  Handlers,     \* requests in progress at most
  MaxRequests,  \* requests of a behaviour
  MaxMishaps    \* failed writes and process ends of a behaviour

ASSUME ConfigStoreAssumption ==
  /\ IsFiniteSet(Ids) /\ FirstRelays \subseteq Ids /\ FirstRelays # {}
  /\ MaxRequests \in Nat /\ MaxMishaps \in Nat

VARIABLES
  config,   \* AppState.config
  pool,     \* AppState.pool: its generation and its relays
  file,     \* the configuration file
  temp,     \* the file `tmp-write` beside it
  handler,  \* of each request in progress: where it is, and its locals
  begun,    \* requests so far
  mishaps,
  overlap,  \* a request began while another was in progress; read by properties only
  raced,    \* two requests were replacing the configuration at once; likewise
  renamed,  \* ids of relays an editor renamed, or gave another user; likewise
  refused,  \* requests that were refused; likewise
  last      \* how the request before ended, until the next one begins; likewise

ghosts == <<overlap, raced, renamed, refused, last>>
vars == <<config, pool, file, temp, handler, begun, mishaps, ghosts>>

Relay(id, token, user, on, secret) ==
  [id |-> id, edit |-> token, user |-> user, enabled |-> on, secret |-> secret]
NoConfig == [relays |-> {}, weighted |-> FALSE]

Change(kind, id, user, on, secret) ==
  [kind |-> kind, id |-> id, user |-> user, on |-> on, secret |-> secret]
NoChange == Change("none", "none", "none", FALSE, "none")

Idle == [at |-> "idle", token |-> 0, persist |-> FALSE, change |-> NoChange,
         draft |-> NoConfig, built |-> [x \in {} |-> x],
         ids |-> {}, to |-> FALSE, marks |-> [x \in {} |-> FALSE],
         held |-> 0, fd |-> "none"]

Nothing == [state |-> "none", holds |-> NoConfig]
Torn == [state |-> "torn", holds |-> NoConfig]
Whole(c) == [state |-> "whole", holds |-> c]

IdsOf(c) == {r.id : r \in c.relays}
RelayOf(c, id) == CHOOSE r \in c.relays : r.id = id

\* Faulty variant for ValidInForce: an id may be used twice.
ValidTwice(c) == c.weighted => \E r \in c.relays : r.enabled

UniqueIds(c) == \A r, s \in c.relays : r.id = s.id => r = s

\* validate, of the rules about the relays: ids are unique, and under the weighted
\* strategy some relay that is enabled has a weight.
Valid(c) == UniqueIds(c) /\ (c.weighted => \E r \in c.relays : r.enabled)

\* Pool::build.
Built(c) == [id \in IdsOf(c) |->
               LET r == RelayOf(c, id)
               IN  [edit |-> r.edit, enabled |-> r.enabled, active |-> r.enabled]]

\* Faulty variant for InStep: a relay that stays is carried over as it was.
RebuiltOld(relays, c) ==
  [id \in IdsOf(c) |-> IF id \in DOMAIN relays THEN relays[id] ELSE Built(c)[id]]

\* rebuild_from: a relay that stays and whose `enabled` is as it was keeps its switch.
Rebuilt(relays, c) ==
  [id \in IdsOf(c) |->
     IF id \in DOMAIN relays /\ relays[id].enabled = Built(c)[id].enabled
     THEN [Built(c)[id] EXCEPT !.active = relays[id].active] ELSE Built(c)[id]]

\* redacted, as the dashboard is shown it, and restore_secrets_from, faulty (for
\* PasswordsKept) and as it is: by id, from the configuration in force, if the relay
\* still logs in as the same user.
Redacted(c) == [c EXCEPT !.relays = {[r EXCEPT !.secret = "mark"] : r \in @}]
RestoredNone(c, from) == c
Restored(c, from) ==
  [c EXCEPT !.relays =
     {IF r.secret = "mark" /\ r.id \in IdsOf(from) /\ RelayOf(from, r.id).user = r.user
      THEN [r EXCEPT !.secret = RelayOf(from, r.id).secret] ELSE r : r \in @}]

Init ==
  /\ \E w \in BOOLEAN, user \in [FirstRelays -> Users] :
       config = [relays |-> {Relay(id, 0, user[id], TRUE, "pw") : id \in FirstRelays},
                 weighted |-> w]
  /\ pool = [gen |-> 0, relays |-> Built(config)]
  /\ file = Whole(config) /\ temp = Nothing
  /\ handler = [h \in Handlers |-> Idle]
  /\ begun = 0 /\ mishaps = 0
  /\ overlap = FALSE /\ raced = FALSE /\ renamed = {} /\ refused = {} /\ last = "none"

-----------------------------------------------------------------------------
(* Requests begin and end.                                                 *)

At(h, step) == handler[h].at = step
Becomes(h, locals) == handler' = [handler EXCEPT ![h] = locals]
Goes(h, step) == Becomes(h, [handler[h] EXCEPT !.at = step])
Busy == {h \in Handlers : ~At(h, "idle")}

\* Ids under which a document has a mark for a user the configuration has not there.
Renamed(document) ==
  {r.id : r \in {x \in document.relays :
                   x.secret = "mark" /\ ~ \E s \in config.relays : s.id = x.id /\ s.user = x.user}}

Begins(h, locals) ==
  /\ At(h, "idle") /\ begun < MaxRequests
  /\ begun' = begun + 1
  /\ Becomes(h, [locals EXCEPT !.token = begun + 1])
  /\ overlap' = (overlap \/ Busy # {}) /\ last' = "none"
  /\ renamed' = renamed \cup Renamed(locals.draft)
  /\ UNCHANGED <<config, pool, file, temp, mishaps, raced, refused>>

\* The answer: `saved`, `applied` to what is in force only, or an error, which is
\* `refused` if nothing was applied.
Ends(h, answer) ==
  /\ Becomes(h, Idle)
  /\ last' = answer
  /\ refused' = IF answer = "refused" THEN refused \cup {handler[h].token} ELSE refused
  /\ UNCHANGED <<begun, overlap, raced, renamed>>

Known(id) == id \in DOMAIN pool.relays
Edits(change, persist, step) ==
  [Idle EXCEPT !.at = step, !.change = change, !.persist = persist]

\* add_relay and update_relay look the id up, and update_relay the password the form
\* does not show, before they await the SMTP test.
BeginAdd(h, id, user, persist) ==
  /\ ~Known(id) /\ Begins(h, Edits(Change("add", id, user, TRUE, "pw"), persist, "testing"))

\* The form shows the mark, and the password is kept whatever user the form names.
BeginUpdate(h, id, user, on, persist) ==
  LET secret == IF id \in IdsOf(config) THEN RelayOf(config, id).secret ELSE "mark"
  IN  Known(id) /\ Begins(h, Edits(Change("update", id, user, on, secret), persist, "testing"))

BeginDelete(h, id, persist) ==
  Known(id) /\ Begins(h, Edits(Change("delete", id, "none", FALSE, "none"), persist, "editing"))

\* update_routing, and with it every request that sets other settings.
BeginSetting(h, weighted, persist) ==
  Begins(h, Edits(Change("setting", "none", "none", weighted, "none"), persist, "editing"))

\* The configuration editor sends what it was shown, changed: a bound of the model is
\* that it sets the strategy, or takes out at most one relay and writes at most one,
\* anew or in its place.
AtMostOne(S) == {{}} \cup {{x} : x \in S}
Typed(token) ==
  {Relay(id, token, user, on, secret) :
     id \in Ids, user \in Users, on \in BOOLEAN, secret \in {"mark", "pw"}}
Documents(shown, token) ==
  {[shown EXCEPT !.weighted = w] : w \in BOOLEAN} \cup
  {[shown EXCEPT !.relays = (@ \ gone) \cup new] :
     gone \in AtMostOne(shown.relays), new \in AtMostOne(Typed(token))}

BeginReplace(h, document) ==
  Begins(h, [Edits(Change("replace", "none", "none", FALSE, "none"), TRUE, "editing")
               EXCEPT !.draft = document])

\* set_activation, bulk_activation, bulk and its exclusive form.  The relays are those
\* of the pool in force now; the toggle's target is read now.
BeginSwitch(h, ids, to, persist) ==
  Begins(h, [Idle EXCEPT !.at = "switching", !.persist = persist, !.held = pool.gen,
                         !.ids = ids, !.to = to])
BeginToggle(h, id, persist) ==
  Known(id) /\ BeginSwitch(h, {id}, ~pool.relays[id].active, persist)
BeginExclusive(h, ids) ==
  Begins(h, [Idle EXCEPT !.at = "choosing", !.persist = TRUE, !.held = pool.gen, !.ids = ids])

BeginReload(h) == Begins(h, [Idle EXCEPT !.at = "loading"])
BeginSave(h) == Begins(h, [Idle EXCEPT !.at = "saving", !.persist = TRUE])

-----------------------------------------------------------------------------
(* edit_config, replace_config and reload_from_disk                        *)

Tested(h) ==
  /\ At(h, "testing")
  /\ \/ Goes(h, "editing") /\ UNCHANGED <<begun, ghosts>>
     \/ Ends(h, "refused")
  /\ UNCHANGED <<config, pool, file, temp, mishaps>>

Edited(c, locals) ==
  LET q == locals.change
      mine == Relay(q.id, locals.token, q.user, q.on, q.secret)
  IN  CASE q.kind = "add" -> [c EXCEPT !.relays = @ \cup {mine}]
        [] q.kind = "update" ->
             [c EXCEPT !.relays = {IF r.id = q.id THEN mine ELSE r : r \in @}]
        [] q.kind = "delete" -> [c EXCEPT !.relays = {r \in @ : r.id # q.id}]
        [] q.kind = "setting" -> [c EXCEPT !.weighted = q.on]
        [] q.kind = "replace" -> Restored(locals.draft, c)

Draft(h) ==
  /\ At(h, "editing")
  /\ Becomes(h, [handler[h] EXCEPT !.at = "drafted", !.draft = Edited(config, handler[h])])
  /\ UNCHANGED <<config, pool, file, temp, begun, mishaps, ghosts>>

\* A file that cannot be read whole does not parse.
Load(h) ==
  /\ At(h, "loading")
  /\ IF file.state = "torn" THEN Ends(h, "refused")
     ELSE /\ Becomes(h, [handler[h] EXCEPT !.at = "drafted", !.draft = file.holds])
          /\ UNCHANGED <<begun, ghosts>>
  /\ UNCHANGED <<config, pool, file, temp, mishaps>>

\* Faulty variant for RefusedTraceless: the configuration is stored, then validated.
ApplyEarly(h) ==
  /\ At(h, "drafted")
  /\ config' = handler[h].draft
  /\ IF Valid(handler[h].draft)
     THEN /\ Becomes(h, [handler[h] EXCEPT !.at = "storing",
                                           !.built = Rebuilt(pool.relays, handler[h].draft)])
          /\ UNCHANGED <<begun, ghosts>>
     ELSE Ends(h, "refused")
  /\ UNCHANGED <<pool, file, temp, mishaps>>

\* apply_config: validate, then build the pool from the one in force.
Apply(h) ==
  /\ At(h, "drafted")
  /\ IF Valid(handler[h].draft)
     THEN /\ Becomes(h, [handler[h] EXCEPT !.at = "storing",
                                           !.built = Rebuilt(pool.relays, handler[h].draft)])
          /\ UNCHANGED <<begun, ghosts>>
     ELSE Ends(h, "refused")
  /\ UNCHANGED <<config, pool, file, temp, mishaps>>

\* Between the first and the last step by which h replaces the configuration: from
\* store_config to store_pool, or from reading to storing what is in force.
Replacing(h) == handler[h].at \in {"swapping", "noting"}

Races(h) ==
  /\ raced' = (raced \/ \E g \in Handlers \ {h} : Replacing(g))
  /\ UNCHANGED <<overlap, renamed, refused, last>>

StoreConfig(h) ==
  /\ At(h, "storing") /\ config' = handler[h].draft /\ Goes(h, "swapping")
  /\ Races(h)
  /\ UNCHANGED <<pool, file, temp, begun, mishaps>>

StorePool(h) ==
  /\ At(h, "swapping")
  /\ pool' = [gen |-> pool.gen + 1, relays |-> handler[h].built]
  /\ IF handler[h].persist THEN Goes(h, "saving") /\ UNCHANGED <<begun, ghosts>>
     ELSE Ends(h, "applied")
  /\ UNCHANGED <<config, file, temp, mishaps>>

-----------------------------------------------------------------------------
(* Activation                                                              *)

\* set_many and the like set the relays of the pool they looked up.  When that has been
\* replaced the change is lost, and what it changed there is free here.  With an unknown
\* id among the ids the relays stay changed and nothing is saved.
Sets(h, switches, noted) ==
  LET fresh == handler[h].held = pool.gen
      ids == DOMAIN switches
      changed == {id \in ids : pool.relays[id].active # switches[id]}
      kept == IF noted = "all" THEN ids ELSE changed
  IN  /\ pool' = IF fresh
                 THEN [pool EXCEPT !.relays = [id \in DOMAIN @ |->
                         IF id \in ids THEN [@[id] EXCEPT !.active = switches[id]] ELSE @[id]]]
                 ELSE pool
      /\ \E told \in IF fresh THEN {kept} ELSE SUBSET ids :
           IF handler[h].persist /\ told # {} /\ handler[h].ids \subseteq DOMAIN pool.relays
           THEN /\ Becomes(h, [handler[h] EXCEPT !.at = "mirroring",
                                                 !.marks = [id \in told |-> switches[id]]])
                /\ UNCHANGED <<begun, ghosts>>
           ELSE Ends(h, "applied")
      /\ UNCHANGED <<config, file, temp, mishaps>>

Switch(h) ==
  /\ At(h, "switching")
  /\ Sets(h, [id \in handler[h].ids \cap DOMAIN pool.relays |-> handler[h].to], "changed")

\* The exclusive form notes the switch of every relay.
Choose(h) ==
  /\ At(h, "choosing")
  /\ Sets(h, [id \in DOMAIN pool.relays |-> id \in handler[h].ids], "all")

\* persist_activation: the configuration is read, and what is in force replaced, without
\* validating it.
Mirror(h) ==
  /\ At(h, "mirroring")
  /\ Becomes(h, [handler[h] EXCEPT !.at = "noting", !.draft =
       [config EXCEPT !.relays =
          {IF r.id \in DOMAIN handler[h].marks
           THEN [r EXCEPT !.enabled = handler[h].marks[r.id]] ELSE r : r \in @}]])
  /\ Races(h)
  /\ UNCHANGED <<config, pool, file, temp, begun, mishaps>>

StoreMirror(h) ==
  /\ At(h, "noting") /\ config' = handler[h].draft /\ Goes(h, "saving")
  /\ UNCHANGED <<pool, file, temp, begun, mishaps, ghosts>>

-----------------------------------------------------------------------------
(* persist_config and save: validate, write `tmp-write`, rename it.        *)

SaveReads(h) ==
  /\ At(h, "saving")
  /\ IF Valid(config)
     THEN /\ Becomes(h, [handler[h] EXCEPT !.at = "opening", !.draft = config])
          /\ UNCHANGED <<begun, ghosts>>
     ELSE Ends(h, "unsaved")
  /\ UNCHANGED <<config, pool, file, temp, mishaps>>

\* Faulty variant for FileWhole: the file itself is written.
OpenInPlace(h) ==
  /\ At(h, "opening")
  /\ file' = Torn
  /\ Becomes(h, [handler[h] EXCEPT !.at = "writing", !.fd = "file"])
  /\ UNCHANGED <<config, pool, temp, begun, mishaps, ghosts>>

\* Opening truncates; all requests use the same name.
Open(h) ==
  /\ At(h, "opening")
  /\ temp' = Torn
  /\ Becomes(h, [handler[h] EXCEPT !.at = "writing", !.fd = "temp"])
  /\ UNCHANGED <<config, pool, file, begun, mishaps, ghosts>>

\* What is written goes where the file opened is by now; over another text of other
\* length, a mixture stays.
Written(old, c) ==
  {Whole(c)} \cup IF old.state = "whole" /\ old.holds # c THEN {Torn} ELSE {}

Write(h) ==
  /\ At(h, "writing") /\ Goes(h, "renaming")
  /\ temp' \in IF handler[h].fd = "temp" THEN Written(temp, handler[h].draft) ELSE {temp}
  /\ file' \in IF handler[h].fd = "file" THEN Written(file, handler[h].draft) ELSE {file}
  /\ UNCHANGED <<config, pool, begun, mishaps, ghosts>>

\* Faulty variant for SavedStays: that the write failed is not answered.
WriteFailsUntold(h) ==
  /\ At(h, "writing") /\ mishaps < MaxMishaps
  /\ mishaps' = mishaps + 1 /\ Ends(h, "saved")
  /\ UNCHANGED <<config, pool, file, temp>>

WriteFails(h) ==
  /\ At(h, "writing") /\ mishaps < MaxMishaps
  /\ mishaps' = mishaps + 1 /\ Ends(h, "unsaved")
  /\ UNCHANGED <<config, pool, file, temp>>

\* Those still writing write to the file renamed, or to one replaced since.
Rename(h) ==
  /\ At(h, "renaming")
  /\ IF temp.state = "none" THEN Ends(h, "unsaved") /\ UNCHANGED <<file, temp>>
     ELSE /\ file' = temp /\ temp' = Nothing
          /\ last' = "saved" /\ UNCHANGED <<begun, overlap, raced, renamed, refused>>
          /\ handler' = [g \in Handlers |->
               IF g = h THEN Idle
               ELSE [handler[g] EXCEPT !.fd = CASE @ = "temp" -> "file"
                                                [] @ = "file" -> "gone"
                                                [] OTHER -> @]]
  /\ UNCHANGED <<config, pool, mishaps>>

\* The process ends and starts again, from the file.
Restart ==
  /\ mishaps < MaxMishaps /\ mishaps' = mishaps + 1
  /\ file.state = "whole" /\ Valid(file.holds)
  /\ config' = file.holds
  /\ pool' = [gen |-> pool.gen + 1, relays |-> Built(file.holds)]
  /\ handler' = [h \in Handlers |-> Idle]
  /\ last' = "none"
  /\ UNCHANGED <<file, temp, begun, overlap, raced, renamed, refused>>

-----------------------------------------------------------------------------
BeginAny(h) ==
  \/ \E id \in Ids, persist \in BOOLEAN :
       \/ BeginDelete(h, id, persist) \/ BeginToggle(h, id, persist)
       \/ \E user \in Users :
            \/ BeginAdd(h, id, user, persist)
            \/ \E on \in BOOLEAN : BeginUpdate(h, id, user, on, persist)
  \/ \E on, persist \in BOOLEAN : BeginSetting(h, on, persist)
  \/ \E on, persist \in BOOLEAN, ids \in SUBSET Ids : BeginSwitch(h, ids, on, persist)
  \/ \E document \in Documents(Redacted(config), begun + 1) : BeginReplace(h, document)
  \/ \E ids \in SUBSET Ids : BeginExclusive(h, ids)
  \/ BeginReload(h) \/ BeginSave(h)

Step(h) ==
  \/ Tested(h) \/ Draft(h) \/ Load(h) \/ Apply(h) \/ StoreConfig(h) \/ StorePool(h)
  \/ Switch(h) \/ Choose(h) \/ Mirror(h) \/ StoreMirror(h)
  \/ SaveReads(h) \/ Open(h) \/ Write(h) \/ WriteFails(h) \/ Rename(h)

Next == Restart \/ \E h \in Handlers : BeginAny(h) \/ Step(h)

Spec == Init /\ [][Next]_vars

-----------------------------------------------------------------------------
(* Properties.                                                             *)

\* However requests overlap, no two relays of the configuration in force, of a whole
\* file or of the pool's source share an id, although add_relay looks the id up before
\* it awaits the SMTP test.
ValidInForce == UniqueIds(config) /\ UniqueIds(file.holds) /\ UniqueIds(temp.holds)

\* However requests overlap - looking up, awaiting the SMTP test, drafting and building
\* from what is in force by then, switching, saving - and after a restart, the pool has
\* the relays of the configuration, as the configuration has them, whenever no request
\* is between its two stores; unless two requests replaced the configuration at once,
\* each within the few statements between the first and the last step of doing so
\* (apply_config, state.rs:232-233; persist_activation, state.rs:278-290).
InStep ==
  ~raced /\ (\A h \in Handlers : ~At(h, "swapping")) =>
    /\ DOMAIN pool.relays = IdsOf(config)
    /\ \A r \in config.relays : pool.relays[r.id].edit = r.edit

\* state.rs: apply_config installs "a new configuration, preserving relay runtime state
\* wherever the relay id survived the change": once no request is in progress the pool
\* has the relays of the configuration, whatever raced before.
AlwaysInStep == Busy = {} => DOMAIN pool.relays = IdsOf(config)

\* A request that was refused has left nothing of its own anywhere.
RefusedTraceless ==
  /\ \A r \in config.relays \cup file.holds.relays : r.edit \notin refused
  /\ \A id \in DOMAIN pool.relays : pool.relays[id].edit \notin refused

\* Once a request has answered that its change is saved, a restart brings back exactly
\* the configuration in force.
SavedStays == Busy = {} /\ ~overlap /\ last = "saved" => file = Whole(config)

\* Whenever the process ends, and whatever write fails, the file is a whole
\* configuration, unless requests overlapped: two that save share `tmp-write`.
FileWhole == ~overlap => file.state = "whole"

\* The mark the dashboard is shown for a password becomes the password of no relay,
\* through the editor, a relay's form, the file or a switch mirrored into it, unless
\* requests overlapped or the editor itself gave the relay another id or another user:
\* there restore_secrets_from finds nothing to restore, and the mark is stored.
PasswordsKept ==
  ~overlap => \A r \in config.relays : r.secret = "mark" => r.id \in renamed

\* config.rs: secrets are restored "so a dashboard save never wipes passwords".
NeverWiped == ~overlap => \A r \in config.relays : r.secret # "mark"

\* state.rs: an activation change is mirrored "into the configuration file so the state
\* survives a restart": nothing that is applied and should be saved stays unsaved when
\* no write fails and no two requests overlap.
AppliedIsSaved == mishaps = 0 /\ ~overlap => last # "unsaved"
=============================================================================
