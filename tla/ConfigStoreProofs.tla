------------------------- MODULE ConfigStoreProofs -------------------------
(***************************************************************************)
(* For any relay ids, any number of requests in progress, of requests and  *)
(* of mishaps: what the configuration, the pool and the file keep.         *)
(***************************************************************************)
EXTENDS ConfigStore, TLAPS

-----------------------------------------------------------------------------
(* The shapes of the state, and unique ids.                                *)

\* What a step reads as a record is one.
IsRelay(r) ==
  r \in [id : {r.id}, edit : {r.edit}, user : {r.user}, enabled : {r.enabled}, secret : {r.secret}]
IsConfig(c) ==
  /\ c \in [relays : {c.relays}, weighted : {c.weighted}]
  /\ \A r \in c.relays : IsRelay(r)
IsFile(f) == f \in [state : {f.state}, holds : {f.holds}] /\ IsConfig(f.holds)
IsLocals(l) ==
  /\ l \in [at : {l.at}, token : {l.token}, persist : {l.persist}, change : {l.change},
            draft : {l.draft}, built : {l.built}, ids : {l.ids}, to : {l.to},
            marks : {l.marks}, held : {l.held}, fd : {l.fd}]
  /\ IsConfig(l.draft)

IsRelays(p) ==
  \A id \in DOMAIN p :
    p[id] \in [edit : {p[id].edit}, enabled : {p[id].enabled}, active : {p[id].active}]

Kinds == {"add", "update", "delete", "setting", "replace"}

Shapes ==
  /\ IsConfig(config) /\ IsFile(file) /\ IsFile(temp)
  /\ pool \in [gen : {pool.gen}, relays : {pool.relays}] /\ IsRelays(pool.relays)
  /\ handler = [h \in Handlers |-> handler[h]]
  /\ \A h \in Handlers :
       /\ IsLocals(handler[h]) /\ IsRelays(handler[h].built)
       /\ handler[h].at \in {"testing", "editing"} => handler[h].change.kind \in Kinds

\* Where a draft is of a configuration that has been in force or will be.
Vetted == {"storing", "noting", "opening", "writing", "renaming"}

NoTwins ==
  /\ UniqueIds(config) /\ UniqueIds(file.holds) /\ UniqueIds(temp.holds)
  /\ \A h \in Handlers : handler[h].at \in Vetted => UniqueIds(handler[h].draft)

WellFormed == Shapes /\ NoTwins

LEMMA NoConfigIs == IsConfig(NoConfig) /\ UniqueIds(NoConfig) /\ NoConfig.relays = {}
  BY DEF IsConfig, UniqueIds, NoConfig

LEMMA IdleIs == IsLocals(Idle) /\ Idle.at = "idle" /\ Idle.draft = NoConfig
  BY NoConfigIs DEF IsLocals, Idle

LEMMA FilesAre ==
  /\ IsFile(Nothing) /\ IsFile(Torn) /\ Nothing.holds = NoConfig /\ Torn.holds = NoConfig
  /\ \A c : IsConfig(c) => IsFile(Whole(c))
  /\ \A c : Whole(c).holds = c /\ Whole(c).state = "whole"
  /\ Torn.state = "torn" /\ Nothing.state = "none"
  BY NoConfigIs DEF IsFile, Nothing, Torn, Whole

\* The request h goes on with the locals l, the others as they were.
LEMMA BecomesIs ==
  ASSUME Shapes, NEW h \in Handlers, NEW l, Becomes(h, l)
  PROVE  /\ handler'[h] = l
         /\ \A g \in Handlers \ {h} : handler'[g] = handler[g]
         /\ handler' = [g \in Handlers |-> handler'[g]]
         /\ IsLocals(l) => \A g \in Handlers : IsLocals(handler'[g])
  <1>1. handler' = [g \in Handlers |-> IF g = h THEN l ELSE handler[g]]
    BY DEF Shapes, Becomes
  <1> QED BY <1>1 DEF Shapes

-----------------------------------------------------------------------------
(* What a step does to the request that takes it, and to the others.       *)

Others(h) ==
  /\ handler' = [g \in Handlers |-> handler'[g]]
  /\ \A g \in Handlers : IsLocals(handler'[g])
  /\ \A g \in Handlers \ {h} :
       /\ handler'[g].at = handler[g].at /\ handler'[g].token = handler[g].token
       /\ handler'[g].draft = handler[g].draft /\ handler'[g].built = handler[g].built
       /\ handler'[g].change = handler[g].change

\* The request h is at a step, with a draft and a pool built.
Is(h, at, draft, built) ==
  /\ handler'[h].at = at /\ handler'[h].draft = draft /\ handler'[h].built = built
  /\ handler'[h].token = handler[h].token /\ handler'[h].change = handler[h].change

LEMMA GoesIs ==
  ASSUME Shapes, NEW h \in Handlers, NEW step, Goes(h, step)
  PROVE  Is(h, step, handler[h].draft, handler[h].built) /\ Others(h)
  <1>0. PICK m : m = [handler[h] EXCEPT !.at = step] OBVIOUS
  <1>1. Becomes(h, m) BY <1>0 DEF Goes
  <1>2. IsLocals(handler[h]) BY DEF Shapes
  <1>3. /\ IsLocals(m) /\ m.at = step /\ m.draft = handler[h].draft
        /\ m.token = handler[h].token /\ m.change = handler[h].change /\ m.built = handler[h].built
    BY <1>0, <1>2 DEF IsLocals
  <1> QED BY <1>1, <1>3, BecomesIs DEF Is, Others

LEMMA DraftsIs ==
  ASSUME Shapes, NEW h \in Handlers, NEW step, NEW c, IsConfig(c),
         Becomes(h, [handler[h] EXCEPT !.at = step, !.draft = c])
  PROVE  Is(h, step, c, handler[h].built) /\ Others(h)
  <1>0. PICK m : m = [handler[h] EXCEPT !.at = step, !.draft = c] OBVIOUS
  <1>2. IsLocals(handler[h]) BY DEF Shapes
  <1>3. /\ IsLocals(m) /\ m.at = step /\ m.draft = c
        /\ m.token = handler[h].token /\ m.change = handler[h].change /\ m.built = handler[h].built
    BY <1>0, <1>2 DEF IsLocals
  <1>4. Becomes(h, m) BY <1>0
  <1> QED BY <1>3, <1>4, BecomesIs DEF Is, Others

LEMMA BuildsIs ==
  ASSUME Shapes, NEW h \in Handlers, NEW step, NEW p,
         Becomes(h, [handler[h] EXCEPT !.at = step, !.built = p])
  PROVE  Is(h, step, handler[h].draft, p) /\ Others(h)
  <1>0. PICK m : m = [handler[h] EXCEPT !.at = step, !.built = p] OBVIOUS
  <1>2. IsLocals(handler[h]) BY DEF Shapes
  <1>3. /\ IsLocals(m) /\ m.at = step /\ m.draft = handler[h].draft
        /\ m.token = handler[h].token /\ m.change = handler[h].change /\ m.built = p
    BY <1>0, <1>2 DEF IsLocals
  <1>4. Becomes(h, m) BY <1>0
  <1> QED BY <1>3, <1>4, BecomesIs DEF Is, Others

LEMMA MarksIs ==
  ASSUME Shapes, NEW h \in Handlers, NEW step, NEW x,
         Becomes(h, [handler[h] EXCEPT !.at = step, !.marks = x])
  PROVE  Is(h, step, handler[h].draft, handler[h].built) /\ Others(h)
  <1>0. PICK m : m = [handler[h] EXCEPT !.at = step, !.marks = x] OBVIOUS
  <1>2. IsLocals(handler[h]) BY DEF Shapes
  <1>3. /\ IsLocals(m) /\ m.at = step /\ m.draft = handler[h].draft
        /\ m.token = handler[h].token /\ m.change = handler[h].change /\ m.built = handler[h].built
    BY <1>0, <1>2 DEF IsLocals
  <1>4. Becomes(h, m) BY <1>0
  <1> QED BY <1>3, <1>4, BecomesIs DEF Is, Others

LEMMA OpensIs ==
  ASSUME Shapes, NEW h \in Handlers, NEW step, NEW x,
         Becomes(h, [handler[h] EXCEPT !.at = step, !.fd = x])
  PROVE  Is(h, step, handler[h].draft, handler[h].built) /\ handler'[h].fd = x /\ Others(h)
  <1>0. PICK m : m = [handler[h] EXCEPT !.at = step, !.fd = x] OBVIOUS
  <1>2. IsLocals(handler[h]) BY DEF Shapes
  <1>3. /\ IsLocals(m) /\ m.at = step /\ m.draft = handler[h].draft
        /\ m.token = handler[h].token /\ m.change = handler[h].change /\ m.built = handler[h].built /\ m.fd = x
    BY <1>0, <1>2 DEF IsLocals
  <1>4. Becomes(h, m) BY <1>0
  <1> QED BY <1>3, <1>4, BecomesIs DEF Is, Others

LEMMA EndsIs ==
  ASSUME Shapes, NEW h \in Handlers, NEW answer, Ends(h, answer)
  PROVE  handler'[h] = Idle /\ Others(h)
  BY IdleIs, BecomesIs DEF Ends, Others

-----------------------------------------------------------------------------
(* Configurations made of others.                                          *)

LEMMA ConfigWith ==
  ASSUME NEW c, IsConfig(c), NEW S
  PROVE  /\ [c EXCEPT !.relays = S].relays = S
         /\ [c EXCEPT !.relays = S].weighted = c.weighted
         /\ (\A r \in S : IsRelay(r)) => IsConfig([c EXCEPT !.relays = S])
  BY DEF IsConfig

\* Each relay of d stands for one of c: only its switch or its password differ.
StandsFor(d, c) ==
  /\ \A r \in d.relays : \E s \in c.relays : r.id = s.id /\ r.edit = s.edit
  /\ \A s \in c.relays : \E r \in d.relays : r.id = s.id /\ r.edit = s.edit

LEMMA RedactedIs ==
  ASSUME NEW c, IsConfig(c)
  PROVE  /\ IsConfig(Redacted(c)) /\ Redacted(c).weighted = c.weighted
         /\ StandsFor(Redacted(c), c)
         /\ UniqueIds(c) => UniqueIds(Redacted(c))
  <1> DEFINE marked(r) == [r EXCEPT !.secret = "mark"]
             S == {marked(r) : r \in c.relays}
  <1>1. ASSUME NEW r \in c.relays
        PROVE  IsRelay(marked(r)) /\ marked(r).id = r.id /\ marked(r).edit = r.edit
    BY DEF IsConfig, IsRelay
  <1>2. Redacted(c) = [c EXCEPT !.relays = S] BY DEF Redacted
  <1> HIDE DEF marked
  <1>s. \A r \in S : IsRelay(r) BY <1>1
  <1>h. IsConfig([c EXCEPT !.relays = S])
    <2> HIDE DEF S
    <2> QED BY <1>s, ConfigWith
  <1>3. Redacted(c).relays = S /\ Redacted(c).weighted = c.weighted BY <1>2, ConfigWith
  <1>4. IsConfig(Redacted(c)) BY <1>2, <1>h
  <1> QED BY <1>1, <1>3, <1>4 DEF StandsFor, UniqueIds

Mirrored(c, marks) ==
  [c EXCEPT !.relays = {IF r.id \in DOMAIN marks
                        THEN [r EXCEPT !.enabled = marks[r.id]] ELSE r : r \in @}]

LEMMA MirroredIs ==
  ASSUME NEW c, IsConfig(c), NEW marks
  PROVE  /\ IsConfig(Mirrored(c, marks)) /\ StandsFor(Mirrored(c, marks), c)
         /\ UniqueIds(c) => UniqueIds(Mirrored(c, marks))
  <1> DEFINE noted(r) == IF r.id \in DOMAIN marks
                         THEN [r EXCEPT !.enabled = marks[r.id]] ELSE r
             S == {noted(r) : r \in c.relays}
  <1>1. ASSUME NEW r \in c.relays
        PROVE  IsRelay(noted(r)) /\ noted(r).id = r.id /\ noted(r).edit = r.edit
    BY DEF IsConfig, IsRelay
  <1>2. Mirrored(c, marks) = [c EXCEPT !.relays = S] BY DEF Mirrored
  <1> HIDE DEF noted
  <1>s. \A r \in S : IsRelay(r) BY <1>1
  <1>h. IsConfig([c EXCEPT !.relays = S])
    <2> HIDE DEF S
    <2> QED BY <1>s, ConfigWith
  <1>3. Mirrored(c, marks).relays = S BY <1>2, ConfigWith
  <1>4. IsConfig(Mirrored(c, marks)) BY <1>2, <1>h
  <1> QED BY <1>1, <1>3, <1>4 DEF StandsFor, UniqueIds

LEMMA RestoredIs ==
  ASSUME NEW c, IsConfig(c), NEW from
  PROVE  IsConfig(Restored(c, from)) /\ StandsFor(Restored(c, from), c)
  <1> DEFINE given(r) == IF /\ r.secret = "mark" /\ r.id \in IdsOf(from)
                            /\ RelayOf(from, r.id).user = r.user
                         THEN [r EXCEPT !.secret = RelayOf(from, r.id).secret] ELSE r
             S == {given(r) : r \in c.relays}
  <1>1. ASSUME NEW r \in c.relays
        PROVE  IsRelay(given(r)) /\ given(r).id = r.id /\ given(r).edit = r.edit
    BY DEF IsConfig, IsRelay
  <1>2. Restored(c, from) = [c EXCEPT !.relays = S] BY DEF Restored
  <1> HIDE DEF given
  <1>s. \A r \in S : IsRelay(r) BY <1>1
  <1>h. IsConfig([c EXCEPT !.relays = S])
    <2> HIDE DEF S
    <2> QED BY <1>s, ConfigWith
  <1>3. Restored(c, from).relays = S BY <1>2, ConfigWith
  <1>4. IsConfig(Restored(c, from)) BY <1>2, <1>h
  <1> QED BY <1>1, <1>3, <1>4 DEF StandsFor

LEMMA EditedIs ==
  ASSUME NEW c, IsConfig(c), NEW l, IsConfig(l.draft), l.change.kind \in Kinds
  PROVE  /\ IsConfig(Edited(c, l))
         /\ \A r \in Edited(c, l).relays :
              \/ r.edit = l.token
              \/ \E s \in c.relays \cup l.draft.relays : r.edit = s.edit
  <1> DEFINE q == l.change
             mine == Relay(q.id, l.token, q.user, q.on, q.secret)
  <1>0. IsRelay(mine) /\ mine.edit = l.token BY DEF IsRelay, Relay
  <1> HIDE DEF mine
  <1>1. CASE q.kind = "add"
    <2>1. Edited(c, l) = [c EXCEPT !.relays = @ \cup {mine}] BY <1>1 DEF Edited, mine
    <2>2. Edited(c, l).relays = c.relays \cup {mine} BY <2>1, ConfigWith
    <2>3. IsConfig(Edited(c, l)) BY <1>0, <2>1, ConfigWith DEF IsConfig
    <2> QED BY <1>0, <2>2, <2>3
  <1>2. CASE q.kind = "update"
    <2> DEFINE S == {IF r.id = q.id THEN mine ELSE r : r \in c.relays}
    <2>1. Edited(c, l) = [c EXCEPT !.relays = S] BY <1>2 DEF Edited, mine
    <2>2. \A r \in S : r = mine \/ r \in c.relays OBVIOUS
    <2> HIDE DEF S
    <2>3. Edited(c, l).relays = S BY <2>1, ConfigWith
    <2>4. IsConfig(Edited(c, l)) BY <1>0, <2>1, <2>2, ConfigWith DEF IsConfig
    <2> QED BY <1>0, <2>2, <2>3, <2>4
  <1>3. CASE q.kind = "delete"
    <2> DEFINE S == {r \in c.relays : r.id # q.id}
    <2>1. Edited(c, l) = [c EXCEPT !.relays = S] BY <1>3 DEF Edited
    <2>2. \A r \in S : r \in c.relays OBVIOUS
    <2> HIDE DEF S
    <2>3. Edited(c, l).relays = S BY <2>1, ConfigWith
    <2>4. IsConfig(Edited(c, l)) BY <2>1, <2>2, ConfigWith DEF IsConfig
    <2> QED BY <2>2, <2>3, <2>4
  <1>4. CASE q.kind = "setting"
    <2>1. Edited(c, l) = [c EXCEPT !.weighted = q.on] BY <1>4 DEF Edited
    <2> QED BY <2>1 DEF IsConfig
  <1>5. CASE q.kind = "replace"
    <2>1. Edited(c, l) = Restored(l.draft, c) BY <1>5 DEF Edited
    <2> QED BY <2>1, RestoredIs DEF StandsFor
  <1> QED BY <1>1, <1>2, <1>3, <1>4, <1>5 DEF Kinds

-----------------------------------------------------------------------------
(* A request begins.                                                       *)

First == {"testing", "editing", "switching", "choosing", "loading", "saving"}

Began(h) ==
  /\ handler[h].at = "idle" /\ Others(h)
  /\ UNCHANGED <<config, pool, file, temp, mishaps, raced, refused>>
  /\ begun' = begun + 1 /\ last' = "none" /\ overlap' = (overlap \/ Busy # {})
  /\ renamed' = renamed \cup Renamed(handler'[h].draft)

\* The locals it begins with: a token of its own, no pool, and the editor's draft, whose
\* relays are those shown or its own.
Fresh(h, l) ==
  /\ l.token = begun + 1 /\ DOMAIN l.built = {} /\ IsConfig(l.draft) /\ l.at \in First
  /\ l.at \in {"testing", "editing"} => l.change.kind \in Kinds
  /\ l.at # "editing" => l.draft = NoConfig
  /\ \A r \in l.draft.relays : r.edit = l.token \/ \E s \in config.relays : r.edit = s.edit
  /\ l.change.kind = "add" => l.change.secret = "pw"
  /\ l.change.kind = "update" /\ l.change.id \in IdsOf(config) =>
       l.change.secret = RelayOf(config, l.change.id).secret
  /\ l.change.kind = "update" => l.change.id \in DOMAIN pool.relays

LEMMA BeginsIs ==
  ASSUME Shapes, NEW h \in Handlers, NEW l, IsLocals(l), Begins(h, l)
  PROVE  /\ Began(h)
         /\ handler'[h].token = begun + 1 /\ handler'[h].built = l.built
         /\ handler'[h].draft = l.draft /\ handler'[h].change = l.change
         /\ handler'[h].at = l.at
  <1>0. PICK m : m = [l EXCEPT !.token = begun + 1] OBVIOUS
  <1>1. Becomes(h, m) BY <1>0 DEF Begins
  <1>2. /\ IsLocals(m) /\ m.token = begun + 1 /\ m.built = l.built /\ m.draft = l.draft
        /\ m.change = l.change /\ m.at = l.at
    BY <1>0 DEF IsLocals
  <1>3. handler'[h] = m /\ Others(h) BY <1>1, <1>2, BecomesIs DEF Others
  <1>4. Renamed(handler'[h].draft) = Renamed(l.draft) BY <1>2, <1>3
  <1> QED BY <1>2, <1>3, <1>4 DEF Begins, Began, At

LEMMA EditsIs ==
  ASSUME NEW change, NEW persist, NEW step
  PROVE  LET l == Edits(change, persist, step)
         IN  /\ IsLocals(l) /\ l.at = step /\ l.change = change /\ l.draft = NoConfig
             /\ DOMAIN l.built = {}
  BY NoConfigIs DEF Edits, Idle, IsLocals

LEMMA ChangeIs ==
  ASSUME NEW kind, NEW id, NEW user, NEW on, NEW secret
  PROVE  LET q == Change(kind, id, user, on, secret)
         IN  q.kind = kind /\ q.id = id /\ q.secret = secret
  BY DEF Change

\* The editor's document: relays as shown, and one it wrote itself.
LEMMA DocumentIs ==
  ASSUME NEW c, IsConfig(c), NEW t, NEW d \in Documents(Redacted(c), t)
  PROVE  /\ IsConfig(d)
         /\ \A r \in d.relays : r.edit = t \/ \E s \in c.relays : r.edit = s.edit
  <1>1. PICK shown : shown = Redacted(c) OBVIOUS
  <1>2. IsConfig(shown) /\ \A r \in shown.relays : \E s \in c.relays : r.edit = s.edit
    BY <1>1, RedactedIs DEF StandsFor
  <1>3. CASE \E w \in BOOLEAN : d = [shown EXCEPT !.weighted = w]
    BY <1>2, <1>3 DEF IsConfig
  <1>4. ASSUME NEW gone \in AtMostOne(shown.relays), NEW new \in AtMostOne(Typed(t)),
               d = [shown EXCEPT !.relays = (@ \ gone) \cup new]
        PROVE  /\ IsConfig(d)
               /\ \A r \in d.relays : r.edit = t \/ \E s \in c.relays : r.edit = s.edit
    <2>1. \A r \in Typed(t) : IsRelay(r) /\ r.edit = t BY DEF Typed, Relay, IsRelay
    <2>2. new \subseteq Typed(t) BY DEF AtMostOne
    <2> DEFINE S == (shown.relays \ gone) \cup new
    <2>3. d = [shown EXCEPT !.relays = S] BY <1>4
    <2>4. \A r \in S : r \in shown.relays \/ r \in Typed(t) BY <2>2
    <2>5. \A r \in S : IsRelay(r) BY <1>2, <2>1, <2>4 DEF IsConfig
    <2> HIDE DEF S
    <2>6. d.relays = S /\ IsConfig(d) BY <1>2, <2>3, <2>5, ConfigWith
    <2> QED BY <1>2, <2>1, <2>4, <2>6
  <1> QED BY <1>1, <1>3, <1>4 DEF Documents

LEMMA BeginAnyIs ==
  ASSUME Shapes, NEW h \in Handlers, BeginAny(h)
  PROVE  Began(h) /\ Fresh(h, handler'[h])
  <1>1. ASSUME NEW q, NEW persist, NEW step \in {"testing", "editing"}, q.kind \in Kinds,
               Begins(h, Edits(q, persist, step)),
               q.kind = "add" => q.secret = "pw",
               q.kind = "update" =>
                 /\ q.id \in DOMAIN pool.relays
                 /\ q.id \in IdsOf(config) => q.secret = RelayOf(config, q.id).secret
        PROVE  Began(h) /\ Fresh(h, handler'[h])
    <2>1. PICK l : l = Edits(q, persist, step) OBVIOUS
    <2>2. /\ IsLocals(l) /\ l.at = step /\ l.change = q /\ l.draft = NoConfig
          /\ DOMAIN l.built = {}
      BY <2>1, EditsIs
    <2>3. Begins(h, l) BY <1>1, <2>1
    <2> QED BY <1>1, <2>2, <2>3, BeginsIs, NoConfigIs DEF Fresh, First
  <1>2. ASSUME NEW l, IsLocals(l), Begins(h, l), l.at \in First \ {"testing", "editing"},
               l.draft = NoConfig, DOMAIN l.built = {}, l.change = NoChange
        PROVE  Began(h) /\ Fresh(h, handler'[h])
    <2>1. NoChange.kind = "none" BY DEF NoChange, Change
    <2>2. l.at \in First /\ l.at \notin {"testing", "editing"} BY <1>2
    <2>3. Began(h) /\ handler'[h].token = begun + 1 /\ handler'[h].built = l.built
      BY <1>2, BeginsIs
    <2>4. /\ handler'[h].draft = NoConfig /\ handler'[h].change.kind = "none"
          /\ handler'[h].at = l.at
      BY <1>2, <2>1, BeginsIs
    <2> QED BY <1>2, <2>2, <2>3, <2>4, NoConfigIs DEF Fresh
  <1>3. ASSUME NEW id, NEW user, NEW persist, BeginAdd(h, id, user, persist)
        PROVE  Began(h) /\ Fresh(h, handler'[h])
    <2>1. PICK q : q = Change("add", id, user, TRUE, "pw") OBVIOUS
    <2>2. q.kind = "add" /\ q.secret = "pw" BY <2>1 DEF Change
    <2> QED BY <1>1, <1>3, <2>1, <2>2 DEF BeginAdd, Kinds
  <1>4. ASSUME NEW id, NEW user, NEW on, NEW persist, BeginUpdate(h, id, user, on, persist)
        PROVE  Began(h) /\ Fresh(h, handler'[h])
    BY <1>1, <1>4, ChangeIs DEF BeginUpdate, Kinds, Known
  <1>5. ASSUME NEW id, NEW persist, BeginDelete(h, id, persist)
        PROVE  Began(h) /\ Fresh(h, handler'[h])
    <2>1. PICK q : q = Change("delete", id, "none", FALSE, "none") OBVIOUS
    <2>2. q.kind = "delete" /\ q.secret = "none" BY <2>1 DEF Change
    <2> QED BY <1>1, <1>5, <2>1, <2>2 DEF BeginDelete, Kinds
  <1>6. ASSUME NEW weighted, NEW persist, BeginSetting(h, weighted, persist)
        PROVE  Began(h) /\ Fresh(h, handler'[h])
    BY <1>1, <1>6, ChangeIs DEF BeginSetting, Kinds
  <1>7. ASSUME NEW d \in Documents(Redacted(config), begun + 1), BeginReplace(h, d)
        PROVE  Began(h) /\ Fresh(h, handler'[h])
    <2>1. /\ IsConfig(d)
          /\ \A r \in d.relays : r.edit = begun + 1 \/ \E s \in config.relays : r.edit = s.edit
      BY DocumentIs DEF Shapes
    <2>2. PICK q : q = Change("replace", "none", "none", FALSE, "none") OBVIOUS
    <2>3. PICK e : e = Edits(q, TRUE, "editing") OBVIOUS
    <2>4. IsLocals(e) /\ e.at = "editing" /\ e.change.kind = "replace" /\ DOMAIN e.built = {}
      <3>1. q.kind = "replace" BY <2>2 DEF Change
      <3> QED BY <2>3, <3>1, NoConfigIs DEF Edits, Idle, IsLocals
    <2>5. PICK l : l = [e EXCEPT !.draft = d] OBVIOUS
    <2>6. /\ IsLocals(l) /\ l.at = "editing" /\ l.draft = d /\ l.built = e.built
          /\ l.change = e.change
      BY <2>1, <2>4, <2>5 DEF IsLocals
    <2>7. Begins(h, l) BY <1>7, <2>2, <2>3, <2>5 DEF BeginReplace
    <2> QED BY <2>1, <2>4, <2>6, <2>7, BeginsIs DEF Fresh, First, Kinds
  <1>8. ASSUME NEW ids, NEW to, NEW persist, BeginSwitch(h, ids, to, persist)
        PROVE  Began(h) /\ Fresh(h, handler'[h])
    <2>1. PICK l : l = [Idle EXCEPT !.at = "switching", !.persist = persist, !.held = pool.gen,
                                    !.ids = ids, !.to = to] OBVIOUS
    <2>2. /\ IsLocals(l) /\ l.at = "switching" /\ l.draft = NoConfig /\ DOMAIN l.built = {}
          /\ l.change = NoChange
      BY <2>1, NoConfigIs DEF IsLocals, Idle
    <2> QED BY <1>2, <1>8, <2>1, <2>2 DEF BeginSwitch, First
  <1>9. ASSUME NEW ids, BeginExclusive(h, ids) PROVE Began(h) /\ Fresh(h, handler'[h])
    <2>1. PICK l : l = [Idle EXCEPT !.at = "choosing", !.persist = TRUE, !.held = pool.gen,
                                    !.ids = ids] OBVIOUS
    <2>2. /\ IsLocals(l) /\ l.at = "choosing" /\ l.draft = NoConfig /\ DOMAIN l.built = {}
          /\ l.change = NoChange
      BY <2>1, NoConfigIs DEF IsLocals, Idle
    <2> QED BY <1>2, <1>9, <2>1, <2>2 DEF BeginExclusive, First
  <1>10. CASE BeginReload(h) \/ BeginSave(h)
    <2>1. PICK l : /\ Begins(h, l)
                   /\ \/ l = [Idle EXCEPT !.at = "loading"]
                      \/ l = [Idle EXCEPT !.at = "saving", !.persist = TRUE]
      BY <1>10 DEF BeginReload, BeginSave
    <2>2. /\ IsLocals(l) /\ l.at \in {"loading", "saving"} /\ l.draft = NoConfig
          /\ DOMAIN l.built = {} /\ l.change = NoChange
      BY <2>1, NoConfigIs DEF IsLocals, Idle
    <2> QED BY <1>2, <2>1, <2>2 DEF First
  <1> QED BY <1>3, <1>4, <1>5, <1>6, <1>7, <1>8, <1>9, <1>10 DEF BeginAny, BeginToggle

-----------------------------------------------------------------------------
(* What each step of a request does.                                       *)

Quiet == UNCHANGED <<begun, overlap, renamed, refused, last>>

Leaves(h, answer) ==
  /\ handler'[h] = Idle /\ Others(h)
  /\ last' = answer /\ UNCHANGED <<begun, overlap, renamed>>
  /\ refused' = IF answer = "refused" THEN refused \cup {handler[h].token} ELSE refused

Moves(h, at, draft, built) == Is(h, at, draft, built) /\ Others(h) /\ Quiet

Files == <<file, temp>>

LEMMA RelayOfIs ==
  ASSUME NEW c, NEW id \in IdsOf(c)
  PROVE  RelayOf(c, id) \in c.relays /\ RelayOf(c, id).id = id
  <1>1. \E r \in c.relays : r.id = id BY DEF IdsOf
  <1> QED BY <1>1 DEF RelayOf

\* A pool is built of a configuration, relay by relay.
LEMMA BuiltIs ==
  ASSUME NEW c
  PROVE  /\ DOMAIN Built(c) = IdsOf(c) /\ IsRelays(Built(c))
         /\ \A id \in IdsOf(c) : Built(c)[id].edit = RelayOf(c, id).edit
  <1>1. DOMAIN Built(c) = IdsOf(c) BY DEF Built
  <1>2. ASSUME NEW id \in IdsOf(c)
        PROVE  /\ Built(c)[id].edit = RelayOf(c, id).edit
               /\ Built(c)[id] \in [edit : {Built(c)[id].edit}, enabled : {Built(c)[id].enabled},
                                   active : {Built(c)[id].active}]
    BY DEF Built
  <1> QED BY <1>1, <1>2 DEF IsRelays

LEMMA RebuiltIs ==
  ASSUME NEW p, NEW c, NEW n, n = Rebuilt(p, c)
  PROVE  /\ DOMAIN n = IdsOf(c) /\ IsRelays(n)
         /\ \A id \in IdsOf(c) : n[id].edit = RelayOf(c, id).edit
  <1>1. PICK b : b = Built(c) OBVIOUS
  <1>2. /\ DOMAIN b = IdsOf(c) /\ IsRelays(b)
        /\ \A id \in IdsOf(c) : b[id].edit = RelayOf(c, id).edit
    BY <1>1, BuiltIs
  <1>3. n = [id \in IdsOf(c) |->
               IF id \in DOMAIN p /\ p[id].enabled = b[id].enabled
               THEN [b[id] EXCEPT !.active = p[id].active] ELSE b[id]]
    BY <1>1 DEF Rebuilt
  <1>4. ASSUME NEW id \in IdsOf(c)
        PROVE  /\ n[id].edit = b[id].edit
               /\ n[id] \in [edit : {n[id].edit}, enabled : {n[id].enabled}, active : {n[id].active}]
    BY <1>2, <1>3 DEF IsRelays
  <1> QED BY <1>2, <1>3, <1>4 DEF IsRelays

LEMMA TestedIs ==
  ASSUME Shapes, NEW h \in Handlers, Tested(h)
  PROVE  /\ handler[h].at = "testing" /\ UNCHANGED <<config, pool, file, temp>>
         /\ \/ Moves(h, "editing", handler[h].draft, handler[h].built)
            \/ Leaves(h, "refused")
  BY GoesIs, EndsIs DEF Tested, At, Moves, Leaves, Quiet, ghosts, Ends

LEMMA DraftIs ==
  ASSUME Shapes, NEW h \in Handlers, Draft(h)
  PROVE  /\ handler[h].at = "editing" /\ UNCHANGED <<config, pool, file, temp>>
         /\ IsConfig(Edited(config, handler[h]))
         /\ Moves(h, "drafted", Edited(config, handler[h]), handler[h].built)
  <1>1. handler[h].at = "editing" /\ UNCHANGED <<config, pool, file, temp>> /\ Quiet
    BY DEF Draft, At, Quiet, ghosts
  <1>2. IsConfig(Edited(config, handler[h])) BY <1>1, EditedIs DEF Shapes, IsLocals
  <1> QED BY <1>1, <1>2, DraftsIs DEF Draft, Moves

LEMMA LoadIs ==
  ASSUME Shapes, NEW h \in Handlers, Load(h)
  PROVE  /\ handler[h].at = "loading" /\ UNCHANGED <<config, pool, file, temp>>
         /\ \/ Moves(h, "drafted", file.holds, handler[h].built)
            \/ Leaves(h, "refused")
  <1>1. IsConfig(file.holds) BY DEF Shapes, IsFile
  <1> QED BY <1>1, DraftsIs, EndsIs DEF Load, At, Moves, Leaves, Quiet, ghosts, Ends

LEMMA ApplyIs ==
  ASSUME Shapes, NEW h \in Handlers, Apply(h)
  PROVE  /\ handler[h].at = "drafted" /\ UNCHANGED <<config, pool, file, temp>>
         /\ \/ /\ UniqueIds(handler[h].draft)
               /\ Moves(h, "storing", handler[h].draft, Rebuilt(pool.relays, handler[h].draft))
            \/ Leaves(h, "refused")
  <1>1. PICK p : p = Rebuilt(pool.relays, handler[h].draft) OBVIOUS
  <1> QED BY <1>1, BuildsIs, EndsIs DEF Apply, At, Moves, Leaves, Quiet, ghosts, Ends, Valid

LEMMA StoreConfigIs ==
  ASSUME Shapes, NEW h \in Handlers, StoreConfig(h)
  PROVE  /\ handler[h].at = "storing" /\ UNCHANGED <<pool, file, temp>>
         /\ config' = handler[h].draft
         /\ Moves(h, "swapping", handler[h].draft, handler[h].built)
  BY GoesIs DEF StoreConfig, At, Moves, Quiet, Races

LEMMA StorePoolIs ==
  ASSUME Shapes, NEW h \in Handlers, StorePool(h)
  PROVE  /\ handler[h].at = "swapping" /\ UNCHANGED <<config, file, temp>>
         /\ pool' = [gen |-> pool.gen + 1, relays |-> handler[h].built]
         /\ \/ Moves(h, "saving", handler[h].draft, handler[h].built)
            \/ Leaves(h, "applied")
  BY GoesIs, EndsIs DEF StorePool, At, Moves, Leaves, Quiet, ghosts, Ends

\* The relays stay, as requests wrote them; only their switches change.
SameRelays ==
  /\ pool' \in [gen : {pool'.gen}, relays : {pool'.relays}] /\ IsRelays(pool'.relays)
  /\ DOMAIN pool'.relays = DOMAIN pool.relays
  /\ \A id \in DOMAIN pool.relays : pool'.relays[id].edit = pool.relays[id].edit

LEMMA SetsIs ==
  ASSUME Shapes, NEW h \in Handlers, NEW switches, NEW noted, Sets(h, switches, noted)
  PROVE  /\ UNCHANGED <<config, file, temp>> /\ SameRelays
         /\ \/ Moves(h, "mirroring", handler[h].draft, handler[h].built)
            \/ Leaves(h, "applied")
  <1>1. UNCHANGED <<config, file, temp>> BY DEF Sets
  <1>2. ASSUME handler[h].held # pool.gen PROVE SameRelays
    <2>1. pool' = pool BY <1>2 DEF Sets
    <2>2. pool' \in [gen : {pool'.gen}, relays : {pool'.relays}] BY <2>1 DEF Shapes
    <2>3. IsRelays(pool'.relays) BY <2>1 DEF Shapes, IsRelays
    <2> QED BY <2>1, <2>2, <2>3 DEF SameRelays
  <1>3. ASSUME handler[h].held = pool.gen PROVE SameRelays
    <2> DEFINE p == [id \in DOMAIN pool.relays |->
                       IF id \in DOMAIN switches
                       THEN [pool.relays[id] EXCEPT !.active = switches[id]] ELSE pool.relays[id]]
    <2>1. pool' = [pool EXCEPT !.relays = p] BY <1>3 DEF Sets
    <2>2. DOMAIN p = DOMAIN pool.relays OBVIOUS
    <2>3. ASSUME NEW id \in DOMAIN pool.relays
          PROVE  /\ p[id].edit = pool.relays[id].edit
                 /\ p[id] \in [edit : {p[id].edit}, enabled : {p[id].enabled}, active : {p[id].active}]
      BY DEF Shapes, IsRelays
    <2>4. IsRelays(p) BY <2>2, <2>3 DEF IsRelays
    <2> HIDE DEF p
    <2>5. pool' \in [gen : {pool'.gen}, relays : {pool'.relays}] /\ pool'.relays = p
      BY <2>1 DEF Shapes
    <2>6. IsRelays(pool'.relays) BY <2>4, <2>5
    <2> QED BY <2>2, <2>3, <2>5, <2>6 DEF SameRelays
  <1>4. \/ \E x : Becomes(h, [handler[h] EXCEPT !.at = "mirroring", !.marks = x]) /\ Quiet
        \/ Ends(h, "applied")
    BY DEF Sets, Quiet, ghosts
  <1> QED BY <1>1, <1>2, <1>3, <1>4, MarksIs, EndsIs DEF Moves, Leaves, Ends

LEMMA SwitchIs ==
  ASSUME Shapes, NEW h \in Handlers, Switch(h) \/ Choose(h)
  PROVE  /\ handler[h].at \in {"switching", "choosing"}
         /\ UNCHANGED <<config, file, temp>> /\ SameRelays
         /\ \/ Moves(h, "mirroring", handler[h].draft, handler[h].built)
            \/ Leaves(h, "applied")
  BY SetsIs DEF Switch, Choose, At

LEMMA MirrorIs ==
  ASSUME Shapes, NEW h \in Handlers, Mirror(h)
  PROVE  /\ handler[h].at = "mirroring" /\ UNCHANGED <<config, pool, file, temp>>
         /\ Moves(h, "noting", Mirrored(config, handler[h].marks), handler[h].built)
  <1>1. PICK d : d = Mirrored(config, handler[h].marks) OBVIOUS
  <1>2. IsConfig(d) BY <1>1, MirroredIs DEF Shapes
  <1>3. Becomes(h, [handler[h] EXCEPT !.at = "noting", !.draft = d])
    BY <1>1 DEF Mirror, Mirrored
  <1> QED BY <1>1, <1>2, <1>3, DraftsIs DEF Mirror, At, Moves, Quiet, Races

LEMMA StoreMirrorIs ==
  ASSUME Shapes, NEW h \in Handlers, StoreMirror(h)
  PROVE  /\ handler[h].at = "noting" /\ UNCHANGED <<pool, file, temp>>
         /\ config' = handler[h].draft
         /\ Moves(h, "saving", handler[h].draft, handler[h].built)
  BY GoesIs DEF StoreMirror, At, Moves, Quiet, ghosts

LEMMA SaveReadsIs ==
  ASSUME Shapes, NEW h \in Handlers, SaveReads(h)
  PROVE  /\ handler[h].at = "saving" /\ UNCHANGED <<config, pool, file, temp>>
         /\ \/ Moves(h, "opening", config, handler[h].built)
            \/ Leaves(h, "unsaved")
  <1>1. IsConfig(config) BY DEF Shapes
  <1> QED BY <1>1, DraftsIs, EndsIs DEF SaveReads, At, Moves, Leaves, Quiet, ghosts, Ends

LEMMA OpenIs ==
  ASSUME Shapes, NEW h \in Handlers, Open(h)
  PROVE  /\ handler[h].at = "opening" /\ UNCHANGED <<config, pool, file>>
         /\ temp' = Torn /\ handler'[h].fd = "temp"
         /\ Moves(h, "writing", handler[h].draft, handler[h].built)
  BY OpensIs DEF Open, At, Moves, Quiet, ghosts

LEMMA WriteIs ==
  ASSUME Shapes, NEW h \in Handlers, Write(h)
  PROVE  /\ handler[h].at = "writing" /\ UNCHANGED <<config, pool>>
         /\ temp' \in IF handler[h].fd = "temp" THEN Written(temp, handler[h].draft) ELSE {temp}
         /\ file' \in IF handler[h].fd = "file" THEN Written(file, handler[h].draft) ELSE {file}
         /\ Moves(h, "renaming", handler[h].draft, handler[h].built)
  BY GoesIs DEF Write, At, Moves, Quiet, ghosts

LEMMA WriteFailsIs ==
  ASSUME Shapes, NEW h \in Handlers, WriteFails(h)
  PROVE  /\ handler[h].at = "writing" /\ UNCHANGED <<config, pool, file, temp>>
         /\ Leaves(h, "unsaved")
  BY EndsIs DEF WriteFails, At, Leaves, Ends

LEMMA RenameIs ==
  ASSUME Shapes, NEW h \in Handlers, Rename(h)
  PROVE  /\ handler[h].at = "renaming" /\ UNCHANGED <<config, pool>>
         /\ \/ /\ temp.state = "none" /\ UNCHANGED <<file, temp>> /\ Leaves(h, "unsaved")
            \/ /\ temp.state # "none" /\ file' = temp /\ temp' = Nothing
               /\ Leaves(h, "saved")
  <1>1. CASE temp.state = "none"
    BY <1>1, EndsIs DEF Rename, At, Leaves, Ends
  <1>2. CASE temp.state # "none"
    <2> DEFINE fd(g) == CASE handler[g].fd = "temp" -> "file"
                          [] handler[g].fd = "file" -> "gone"
                          [] OTHER -> handler[g].fd
    <2>1. handler' = [g \in Handlers |->
                        IF g = h THEN Idle ELSE [handler[g] EXCEPT !.fd = fd(g)]]
      BY <1>2 DEF Rename
    <2>2. handler'[h] = Idle BY <2>1
    <2>3. ASSUME NEW g \in Handlers \ {h}
          PROVE  /\ IsLocals(handler'[g])
                 /\ handler'[g].at = handler[g].at /\ handler'[g].token = handler[g].token
                 /\ handler'[g].draft = handler[g].draft /\ handler'[g].built = handler[g].built
                 /\ handler'[g].change = handler[g].change
      <3>1. PICK x : x = fd(g) OBVIOUS
      <3>2. handler'[g] = [handler[g] EXCEPT !.fd = x] BY <2>1, <3>1
      <3> QED BY <3>2 DEF Shapes, IsLocals
    <2>4. Others(h) BY <2>1, <2>2, <2>3, IdleIs DEF Others
    <2> QED BY <1>2, <2>2, <2>4 DEF Rename, At, Leaves
  <1> QED BY <1>1, <1>2

-----------------------------------------------------------------------------
(* The state is well-formed, and no two relays share an id.                *)

\* The requests stay well-formed when the one that takes a step does.
LEMMA HandlersKept ==
  ASSUME WellFormed, NEW h \in Handlers, Others(h), IsRelays(handler'[h].built),
         handler'[h].at \in {"testing", "editing"} => handler'[h].change.kind \in Kinds,
         handler'[h].at \in Vetted => UniqueIds(handler'[h].draft)
  PROVE  /\ handler' = [g \in Handlers |-> handler'[g]]
         /\ \A g \in Handlers :
              /\ IsLocals(handler'[g]) /\ IsRelays(handler'[g].built)
              /\ handler'[g].at \in {"testing", "editing"} => handler'[g].change.kind \in Kinds
              /\ handler'[g].at \in Vetted => UniqueIds(handler'[g].draft)
  <1>1. ASSUME NEW g \in Handlers, g # h
        PROVE  /\ IsRelays(handler'[g].built)
               /\ handler'[g].at \in {"testing", "editing"} => handler'[g].change.kind \in Kinds
               /\ handler'[g].at \in Vetted => UniqueIds(handler'[g].draft)
    BY <1>1 DEF Others, WellFormed, Shapes, NoTwins
  <1> QED BY <1>1 DEF Others

\* What is written is the draft, or torn.
LEMMA WrittenIs ==
  ASSUME NEW old, NEW c, IsConfig(c), UniqueIds(c), NEW f \in Written(old, c)
  PROVE  IsFile(f) /\ UniqueIds(f.holds) /\ (f = Whole(c) \/ f = Torn)
  <1>1. f = Whole(c) \/ f = Torn BY DEF Written
  <1>2. CASE f = Whole(c)
    <2>1. f.holds = c BY <1>2, FilesAre
    <2> QED BY <1>2, <2>1, FilesAre
  <1>3. CASE f = Torn
    <2>1. f.holds = NoConfig BY <1>3, FilesAre
    <2> QED BY <1>3, <2>1, FilesAre, NoConfigIs
  <1> QED BY <1>1, <1>2, <1>3

LEMMA WellFormedInit == Init => WellFormed
  <1> SUFFICES ASSUME Init PROVE WellFormed
    OBVIOUS
  <1>0. PICK w \in BOOLEAN, user \in [FirstRelays -> Users] :
          config = [relays |-> {Relay(id, 0, user[id], TRUE, "pw") : id \in FirstRelays},
                    weighted |-> w]
    BY DEF Init
  <1> DEFINE S == {Relay(id, 0, user[id], TRUE, "pw") : id \in FirstRelays}
  <1>1. config = [relays |-> S, weighted |-> w] BY <1>0
  <1>2. \A r \in S : IsRelay(r) BY DEF IsRelay, Relay
  <1>3. config.relays = S BY <1>1
  <1>4. UniqueIds(config)
    <2>1. ASSUME NEW r \in S, NEW s \in S, r.id = s.id PROVE r = s
      <3>1. PICK i \in FirstRelays : r = Relay(i, 0, user[i], TRUE, "pw") OBVIOUS
      <3>2. PICK j \in FirstRelays : s = Relay(j, 0, user[j], TRUE, "pw") OBVIOUS
      <3>3. r.id = i /\ s.id = j BY <3>1, <3>2 DEF Relay
      <3> QED BY <2>1, <3>1, <3>2, <3>3
    <2> QED BY <1>3, <2>1 DEF UniqueIds
  <1>5. IsConfig(config) BY <1>1, <1>2, <1>3 DEF IsConfig
  <1>6. /\ pool = [gen |-> 0, relays |-> Built(config)] /\ file = Whole(config) /\ temp = Nothing
        /\ handler = [h \in Handlers |-> Idle]
    BY DEF Init
  <1>7. IsFile(file) /\ IsFile(temp) /\ UniqueIds(file.holds) /\ UniqueIds(temp.holds)
    BY <1>4, <1>5, <1>6, FilesAre, NoConfigIs
  <1>8. pool \in [gen : {pool.gen}, relays : {pool.relays}] /\ pool.relays = Built(config)
    BY <1>6
  <1>9. IsRelays(pool.relays) BY <1>8, BuiltIs
  <1>10. IsRelays(Idle.built) /\ Idle.at \notin {"testing", "editing"} \cup Vetted
    BY DEF Idle, IsRelays, Vetted
  <1>11. Shapes BY <1>5, <1>6, <1>7, <1>8, <1>9, <1>10, IdleIs DEF Shapes
  <1>12. NoTwins BY <1>4, <1>6, <1>7, <1>10 DEF NoTwins
  <1> QED BY <1>11, <1>12 DEF WellFormed

\* Steps that leave the pool and the files alone.
LEMMA ConfigStepKeeps ==
  ASSUME WellFormed, NEW h \in Handlers, Others(h), IsRelays(handler'[h].built),
         UNCHANGED <<pool, file, temp>>, IsConfig(config') /\ UniqueIds(config'),
         handler'[h].at \in {"testing", "editing"} => handler'[h].change.kind \in Kinds,
         handler'[h].at \in Vetted => UniqueIds(handler'[h].draft)
  PROVE  WellFormed'
  <1>1. IsFile(file') /\ IsFile(temp') /\ UniqueIds(file'.holds) /\ UniqueIds(temp'.holds)
    BY DEF WellFormed, Shapes, NoTwins
  <1>2. pool' \in [gen : {pool'.gen}, relays : {pool'.relays}] /\ IsRelays(pool'.relays)
    BY DEF WellFormed, Shapes
  <1> QED BY <1>1, <1>2, HandlersKept DEF WellFormed, Shapes, NoTwins

\* Steps that leave the configuration and the files alone.
LEMMA PoolStepKeeps ==
  ASSUME WellFormed, NEW h \in Handlers, Others(h), IsRelays(handler'[h].built),
         UNCHANGED <<config, file, temp>>, IsRelays(pool'.relays),
         pool' \in [gen : {pool'.gen}, relays : {pool'.relays}],
         handler'[h].at \notin {"testing", "editing"} \cup Vetted
  PROVE  WellFormed'
  <1>1. /\ IsFile(file') /\ IsFile(temp') /\ UniqueIds(file'.holds) /\ UniqueIds(temp'.holds)
        /\ IsConfig(config') /\ UniqueIds(config')
    BY DEF WellFormed, Shapes, NoTwins
  <1> QED BY <1>1, HandlersKept DEF WellFormed, Shapes, NoTwins

\* Steps that leave the configuration and the pool alone.
LEMMA FileStepKeeps ==
  ASSUME WellFormed, NEW h \in Handlers, Others(h), IsRelays(handler'[h].built),
         UNCHANGED <<config, pool>>, IsFile(file'), IsFile(temp'),
         UniqueIds(file'.holds), UniqueIds(temp'.holds),
         handler'[h].at \notin {"testing", "editing"},
         handler'[h].at \in Vetted => UniqueIds(handler'[h].draft)
  PROVE  WellFormed'
  <1>1. /\ IsConfig(config') /\ UniqueIds(config') /\ IsRelays(pool'.relays)
        /\ pool' \in [gen : {pool'.gen}, relays : {pool'.relays}]
    BY DEF WellFormed, Shapes, NoTwins
  <1> QED BY <1>1, HandlersKept DEF WellFormed, Shapes, NoTwins

LEMMA IdleLocals ==
  /\ Idle.at = "idle" /\ IsRelays(Idle.built) /\ DOMAIN Idle.built = {}
  /\ Idle.at \notin {"testing", "editing"} \cup Vetted /\ Idle.draft = NoConfig
  BY DEF Idle, IsRelays, Vetted

LEMMA StepKeepsWellFormed ==
  ASSUME WellFormed, NEW h \in Handlers, Step(h)
  PROVE  WellFormed'
  <1>0. /\ Shapes /\ IsConfig(config) /\ UniqueIds(config) /\ IsFile(file) /\ IsFile(temp)
        /\ UniqueIds(file.holds) /\ UniqueIds(temp.holds) /\ IsRelays(handler[h].built)
        /\ IsConfig(handler[h].draft)
        /\ handler[h].at \in Vetted => UniqueIds(handler[h].draft)
        /\ handler[h].at \in {"testing", "editing"} => handler[h].change.kind \in Kinds
    BY DEF WellFormed, Shapes, NoTwins, IsLocals
  <1>e. ASSUME NEW answer, Leaves(h, answer), UNCHANGED <<config, pool, file, temp>>
        PROVE  WellFormed'
    BY <1>0, <1>e, IdleLocals, ConfigStepKeeps DEF Leaves
  <1>1. CASE Tested(h)
    <2>1. CASE Moves(h, "editing", handler[h].draft, handler[h].built)
      BY <1>0, <1>1, <2>1, TestedIs, ConfigStepKeeps DEF Moves, Is, Vetted
    <2> QED BY <1>0, <1>1, <1>e, <2>1, TestedIs
  <1>2. CASE Draft(h)
    BY <1>0, <1>2, DraftIs, ConfigStepKeeps DEF Moves, Is, Vetted
  <1>3. CASE Load(h)
    <2>1. CASE Moves(h, "drafted", file.holds, handler[h].built)
      BY <1>0, <1>3, <2>1, LoadIs, ConfigStepKeeps DEF Moves, Is, Vetted
    <2> QED BY <1>0, <1>3, <1>e, <2>1, LoadIs
  <1>4. CASE Apply(h)
    <2>1. PICK p : p = Rebuilt(pool.relays, handler[h].draft) OBVIOUS
    <2>2. IsRelays(p) BY <2>1, RebuiltIs
    <2>3. CASE UniqueIds(handler[h].draft) /\ Moves(h, "storing", handler[h].draft, p)
      BY <1>0, <1>4, <2>2, <2>3, ApplyIs, ConfigStepKeeps DEF Moves, Is, Vetted
    <2> QED BY <1>0, <1>4, <1>e, <2>1, <2>3, ApplyIs
  <1>5. CASE StoreConfig(h)
    BY <1>0, <1>5, StoreConfigIs, ConfigStepKeeps DEF Moves, Is, Vetted
  <1>6. CASE StorePool(h)
    <2>1. /\ handler'[h].at \notin {"testing", "editing"} \cup Vetted
          /\ IsRelays(handler'[h].built) /\ Others(h)
      BY <1>0, <1>6, StorePoolIs, IdleLocals DEF Moves, Leaves, Is, Vetted
    <2>2. pool' = [gen |-> pool.gen + 1, relays |-> handler[h].built] /\ UNCHANGED <<config, file, temp>>
      BY <1>0, <1>6, StorePoolIs
    <2>3. pool' \in [gen : {pool'.gen}, relays : {pool'.relays}] /\ pool'.relays = handler[h].built
      BY <2>2
    <2>4. IsRelays(pool'.relays) BY <1>0, <2>3
    <2> QED BY <2>1, <2>2, <2>3, <2>4, PoolStepKeeps
  <1>7. CASE Switch(h) \/ Choose(h)
    <2>1. /\ handler'[h].at \notin {"testing", "editing"} \cup Vetted
          /\ IsRelays(handler'[h].built) /\ Others(h)
      BY <1>0, <1>7, SwitchIs, IdleLocals DEF Moves, Leaves, Is, Vetted
    <2> QED BY <1>0, <1>7, <2>1, SwitchIs, PoolStepKeeps DEF SameRelays
  <1>8. CASE Mirror(h)
    <2>1. PICK d : d = Mirrored(config, handler[h].marks) OBVIOUS
    <2>2. UniqueIds(d) BY <1>0, <2>1, MirroredIs
    <2>3. Moves(h, "noting", d, handler[h].built) /\ UNCHANGED <<config, pool, file, temp>>
      BY <1>0, <1>8, <2>1, MirrorIs
    <2> QED BY <1>0, <2>2, <2>3, ConfigStepKeeps DEF Moves, Is
  <1>9. CASE StoreMirror(h)
    BY <1>0, <1>9, StoreMirrorIs, ConfigStepKeeps DEF Moves, Is, Vetted
  <1>10. CASE SaveReads(h)
    <2>1. CASE Moves(h, "opening", config, handler[h].built)
      BY <1>0, <1>10, <2>1, SaveReadsIs, ConfigStepKeeps DEF Moves, Is, Vetted
    <2> QED BY <1>0, <1>10, <1>e, <2>1, SaveReadsIs
  <1>11. CASE Open(h)
    BY <1>0, <1>11, OpenIs, FilesAre, NoConfigIs, FileStepKeeps DEF Moves, Is, Vetted
  <1>12. CASE Write(h)
    <2>1. UniqueIds(handler[h].draft) BY <1>0, <1>12, WriteIs DEF Vetted
    <2>2. IsFile(temp') /\ UniqueIds(temp'.holds) BY <1>0, <1>12, <2>1, WriteIs, WrittenIs
    <2>3. IsFile(file') /\ UniqueIds(file'.holds) BY <1>0, <1>12, <2>1, WriteIs, WrittenIs
    <2> QED BY <1>0, <1>12, <2>1, <2>2, <2>3, WriteIs, FileStepKeeps DEF Moves, Is
  <1>13. CASE WriteFails(h) BY <1>0, <1>13, <1>e, WriteFailsIs
  <1>14. CASE Rename(h)
    <2>1. CASE file' = temp /\ temp' = Nothing /\ Leaves(h, "saved")
      <3>1. /\ IsFile(file') /\ UniqueIds(file'.holds)
            /\ IsFile(temp') /\ UniqueIds(temp'.holds)
        BY <1>0, <2>1, FilesAre, NoConfigIs
      <3>2. UNCHANGED <<config, pool>> BY <1>0, <1>14, RenameIs
      <3>3. Others(h) /\ handler'[h] = Idle BY <2>1 DEF Leaves
      <3> QED BY <3>1, <3>2, <3>3, IdleLocals, FileStepKeeps
    <2> QED BY <1>0, <1>14, <1>e, <2>1, RenameIs
  <1> QED BY <1>1, <1>2, <1>3, <1>4, <1>5, <1>6, <1>7, <1>8, <1>9, <1>10, <1>11, <1>12,
             <1>13, <1>14 DEF Step

LEMMA RestartKeepsWellFormed ==
  ASSUME WellFormed, Restart
  PROVE  WellFormed'
  <1>1. /\ config' = file.holds /\ UNCHANGED <<file, temp>>
        /\ pool' = [gen |-> pool.gen + 1, relays |-> Built(file.holds)]
        /\ handler' = [h \in Handlers |-> Idle]
    BY DEF Restart
  <1>2. /\ IsFile(file) /\ IsFile(temp) /\ UniqueIds(file.holds) /\ UniqueIds(temp.holds)
        /\ IsConfig(file.holds)
    BY DEF WellFormed, Shapes, NoTwins, IsFile
  <1>3. pool' \in [gen : {pool'.gen}, relays : {pool'.relays}] /\ pool'.relays = Built(file.holds)
    BY <1>1
  <1>4. IsRelays(pool'.relays) BY <1>3, BuiltIs
  <1>5. Shapes' BY <1>1, <1>2, <1>3, <1>4, IdleIs, IdleLocals DEF Shapes
  <1>6. NoTwins' BY <1>1, <1>2, IdleLocals DEF NoTwins
  <1> QED BY <1>5, <1>6 DEF WellFormed

LEMMA WellFormedNext == WellFormed /\ [Next]_vars => WellFormed'
  <1> SUFFICES ASSUME WellFormed, [Next]_vars PROVE WellFormed'
    OBVIOUS
  <1>1. CASE Restart BY <1>1, RestartKeepsWellFormed
  <1>2. ASSUME NEW h \in Handlers, BeginAny(h) PROVE WellFormed'
    <2>1. Began(h) /\ Fresh(h, handler'[h]) BY <1>2, BeginAnyIs DEF WellFormed
    <2>2. IsRelays(handler'[h].built) BY <2>1 DEF Fresh, IsRelays
    <2>3. IsConfig(config) /\ UniqueIds(config) BY DEF WellFormed, Shapes, NoTwins
    <2>4. handler'[h].at \notin Vetted BY <2>1 DEF Fresh, First, Vetted
    <2> QED BY <2>1, <2>2, <2>3, <2>4, ConfigStepKeeps DEF Began, Fresh
  <1>3. ASSUME NEW h \in Handlers, Step(h) PROVE WellFormed' BY <1>3, StepKeepsWellFormed
  <1>4. CASE UNCHANGED vars
    BY <1>4 DEF vars, WellFormed, Shapes, NoTwins, IsRelays, UniqueIds
  <1> QED BY <1>1, <1>2, <1>3, <1>4 DEF Next

LEMMA WellFormedAlways == Spec => []WellFormed
  BY WellFormedInit, WellFormedNext, PTL DEF Spec

\* No two relays of the configuration in force, of a whole file or of the one being
\* written share an id, whatever requests overlap and however a relay is looked up
\* before the SMTP test is awaited (validate, config.rs).
THEOREM IdsStayUnique == Spec => []ValidInForce
  <1>1. WellFormed => ValidInForce BY DEF WellFormed, NoTwins, ValidInForce
  <1> QED BY <1>1, WellFormedAlways, PTL

-----------------------------------------------------------------------------
(* What a request wrote is found only once it can no longer be refused.    *)

Early == {"testing", "editing", "drafted", "loading"}

Tokens ==
  /\ begun \in Nat /\ \A t \in refused : t \in Nat /\ 0 < t /\ t <= begun
  /\ \A h \in Handlers : handler[h].at # "idle" =>
       /\ handler[h].token \in Nat /\ 0 < handler[h].token /\ handler[h].token <= begun
       /\ handler[h].token \notin refused
       /\ \A g \in Handlers : g # h /\ handler[g].at # "idle" => handler[g].token # handler[h].token

Applied(t) ==
  /\ t \in Nat /\ t <= begun /\ t \notin refused
  /\ \A h \in Handlers : handler[h].at \in Early => handler[h].token # t

ConfigApplied(c) == \A r \in c.relays : Applied(r.edit)
PoolApplied(p) == \A id \in DOMAIN p : Applied(p[id].edit)

\* The draft of a request is of applied relays, but for its own until it is applied.
DraftApplied(h) ==
  \A r \in handler[h].draft.relays :
    Applied(r.edit) \/ (handler[h].at \in {"editing", "drafted"} /\ r.edit = handler[h].token)

Traces ==
  /\ Tokens
  /\ ConfigApplied(config) /\ ConfigApplied(file.holds) /\ ConfigApplied(temp.holds)
  /\ PoolApplied(pool.relays)
  /\ \A h \in Handlers : PoolApplied(handler[h].built) /\ DraftApplied(h)

Runs(h) ==
  /\ handler[h].at # "idle" /\ Others(h) /\ UNCHANGED <<begun, overlap, renamed>>
  /\ \/ /\ handler'[h].token = handler[h].token /\ handler'[h].at # "idle"
        /\ handler'[h].at \in Early => handler[h].at \in Early
        /\ refused' = refused
     \/ /\ handler'[h] = Idle
        /\ \/ refused' = refused
           \/ handler[h].at \in Early /\ refused' = refused \cup {handler[h].token}

LEMMA StepRuns ==
  ASSUME Shapes, NEW h \in Handlers, Step(h)
  PROVE  Runs(h)
  <1>1. ASSUME handler[h].at # "idle", NEW answer, Leaves(h, answer),
               answer = "refused" => handler[h].at \in Early
        PROVE  Runs(h)
    BY <1>1 DEF Leaves, Runs
  <1>2. ASSUME handler[h].at # "idle", NEW at, NEW draft, NEW built, Moves(h, at, draft, built),
               at # "idle", at \in Early => handler[h].at \in Early
        PROVE  Runs(h)
    BY <1>2 DEF Moves, Is, Quiet, Runs
  <1>3. CASE Tested(h) BY <1>1, <1>2, <1>3, TestedIs DEF Early
  <1>4. CASE Draft(h) BY <1>2, <1>4, DraftIs DEF Early
  <1>5. CASE Load(h) BY <1>1, <1>2, <1>5, LoadIs DEF Early
  <1>6. CASE Apply(h) BY <1>1, <1>2, <1>6, ApplyIs DEF Early
  <1>7. CASE StoreConfig(h) BY <1>2, <1>7, StoreConfigIs DEF Early
  <1>8. CASE StorePool(h) BY <1>1, <1>2, <1>8, StorePoolIs DEF Early
  <1>9. CASE Switch(h) \/ Choose(h) BY <1>1, <1>2, <1>9, SwitchIs DEF Early
  <1>10. CASE Mirror(h) BY <1>2, <1>10, MirrorIs DEF Early
  <1>11. CASE StoreMirror(h) BY <1>2, <1>11, StoreMirrorIs DEF Early
  <1>12. CASE SaveReads(h) BY <1>1, <1>2, <1>12, SaveReadsIs DEF Early
  <1>13. CASE Open(h) BY <1>2, <1>13, OpenIs DEF Early
  <1>14. CASE Write(h) BY <1>2, <1>14, WriteIs DEF Early
  <1>15. CASE WriteFails(h) BY <1>1, <1>15, WriteFailsIs
  <1>16. CASE Rename(h) BY <1>1, <1>16, RenameIs
  <1> QED BY <1>3, <1>4, <1>5, <1>6, <1>7, <1>8, <1>9, <1>10, <1>11, <1>12, <1>13, <1>14,
             <1>15, <1>16 DEF Step

\* A request keeps its token, and what is applied stays so.
LEMMA RunsKeepsTokens ==
  ASSUME Tokens, NEW h \in Handlers, Runs(h)
  PROVE  /\ Tokens' /\ \A t : Applied(t) => Applied(t)'
         /\ handler'[h].at # "idle" /\ handler'[h].at \notin Early => Applied(handler[h].token)'
  <1>0. /\ handler[h].at # "idle" /\ begun' = begun
        /\ \A g \in Handlers \ {h} :
             handler'[g].at = handler[g].at /\ handler'[g].token = handler[g].token
    BY DEF Runs, Others
  <1>1. CASE /\ handler'[h].token = handler[h].token /\ handler'[h].at # "idle"
             /\ handler'[h].at \in Early => handler[h].at \in Early
             /\ refused' = refused
    <2>1. Tokens' BY <1>0, <1>1 DEF Tokens
    <2>2. ASSUME NEW t, Applied(t) PROVE Applied(t)'
      BY <1>0, <1>1, <2>2 DEF Applied
    <2>3. handler'[h].at \notin Early => Applied(handler[h].token)'
      BY <1>0, <1>1 DEF Applied, Tokens, Early
    <2> QED BY <2>1, <2>2, <2>3
  <1>2. CASE /\ handler'[h] = Idle
             /\ \/ refused' = refused
                \/ handler[h].at \in Early /\ refused' = refused \cup {handler[h].token}
    <2>0. handler'[h].at = "idle" BY <1>2, IdleLocals
    <2>1. Tokens' BY <1>0, <1>2, <2>0 DEF Tokens
    <2>2. ASSUME NEW t, Applied(t) PROVE Applied(t)'
      BY <1>0, <1>2, <2>0, <2>2 DEF Applied, Early
    <2> QED BY <2>0, <2>1, <2>2
  <1> QED BY <1>1, <1>2 DEF Runs

LEMMA BeganKeepsTokens ==
  ASSUME Tokens, NEW h \in Handlers, Began(h), Fresh(h, handler'[h])
  PROVE  Tokens' /\ \A t : Applied(t) => Applied(t)'
  <1>0. /\ begun' = begun + 1 /\ refused' = refused /\ handler'[h].token = begun + 1
        /\ \A g \in Handlers \ {h} :
             handler'[g].at = handler[g].at /\ handler'[g].token = handler[g].token
    BY DEF Began, Others, Fresh
  <1>1. Tokens' BY <1>0 DEF Tokens
  <1>2. ASSUME NEW t, Applied(t) PROVE Applied(t)' BY <1>0, <1>2 DEF Applied, Tokens
  <1> QED BY <1>1, <1>2

LEMMA TracesInit == Init => Traces
  <1> SUFFICES ASSUME Init PROVE Traces
    OBVIOUS
  <1>1. begun = 0 /\ refused = {} /\ handler = [h \in Handlers |-> Idle] BY DEF Init
  <1>2. Tokens BY <1>1, IdleLocals DEF Tokens
  <1>3. Applied(0) BY <1>1, IdleLocals DEF Applied, Early
  <1>4. ASSUME NEW r \in config.relays PROVE r.edit = 0
    BY DEF Init, Relay
  <1>5. file.holds = config /\ temp.holds = NoConfig BY FilesAre DEF Init
  <1>6. pool.relays = Built(config) BY DEF Init
  <1>7. ASSUME NEW id \in IdsOf(config) PROVE Built(config)[id].edit = 0
    BY <1>4, BuiltIs, RelayOfIs
  <1>8. PoolApplied(pool.relays) BY <1>3, <1>6, <1>7, BuiltIs DEF PoolApplied
  <1>9. ConfigApplied(config) /\ ConfigApplied(file.holds) /\ ConfigApplied(temp.holds)
    BY <1>3, <1>4, <1>5, NoConfigIs DEF ConfigApplied
  <1>10. \A h \in Handlers : PoolApplied(handler[h].built) /\ DraftApplied(h)
    BY <1>1, IdleLocals, NoConfigIs DEF PoolApplied, DraftApplied
  <1> QED BY <1>2, <1>8, <1>9, <1>10 DEF Traces

LEMMA TracesStep ==
  ASSUME Traces, Tokens', \A t : Applied(t) => Applied(t)', NEW h \in Handlers, Others(h),
         ConfigApplied(config)', ConfigApplied(file.holds)', ConfigApplied(temp.holds)',
         PoolApplied(pool.relays)', PoolApplied(handler[h].built)', DraftApplied(h)'
  PROVE  Traces'
  <1>1. ASSUME NEW g \in Handlers, g # h
        PROVE  PoolApplied(handler[g].built)' /\ DraftApplied(g)'
    BY <1>1 DEF Others, Traces, PoolApplied, DraftApplied
  <1> QED BY <1>1 DEF Traces

LEMMA StepKeepsTraces ==
  ASSUME WellFormed, Traces, NEW h \in Handlers, Step(h)
  PROVE  Traces'
  <1>1. Shapes BY DEF WellFormed
  <1>2. Runs(h) BY <1>1, StepRuns
  <1>3. /\ Tokens' /\ Others(h)
        /\ handler'[h].at # "idle" /\ handler'[h].at \notin Early => Applied(handler[h].token)'
    BY <1>2, RunsKeepsTokens DEF Traces, Runs
  <1>4. \A t : Applied(t) => Applied(t)' BY <1>2, RunsKeepsTokens DEF Traces
  <1>c. config' = config => ConfigApplied(config)' BY <1>4 DEF Traces, ConfigApplied
  <1>f. file' = file => ConfigApplied(file.holds)' BY <1>4 DEF Traces, ConfigApplied
  <1>t. temp' = temp => ConfigApplied(temp.holds)' BY <1>4 DEF Traces, ConfigApplied
  <1>p. pool' = pool => PoolApplied(pool.relays)' BY <1>4 DEF Traces, PoolApplied
  <1>b. handler'[h].built = handler[h].built => PoolApplied(handler[h].built)'
    BY <1>4 DEF Traces, PoolApplied
  <1>d. handler'[h].draft = handler[h].draft /\ handler[h].at \notin {"editing", "drafted"} =>
          DraftApplied(h)'
    BY <1>4 DEF Traces, DraftApplied
  <1>i. handler'[h] = Idle => PoolApplied(handler[h].built)' /\ DraftApplied(h)'
    BY IdleLocals, NoConfigIs DEF PoolApplied, DraftApplied
  <1>s. ASSUME UNCHANGED <<config, pool, file, temp>>,
               PoolApplied(handler[h].built)', DraftApplied(h)'
        PROVE  Traces'
    BY <1>3, <1>4, <1>c, <1>f, <1>t, <1>p, <1>s, TracesStep
  <1>e. ASSUME UNCHANGED <<config, pool, file, temp>>, NEW answer, Leaves(h, answer)
        PROVE  Traces'
    BY <1>e, <1>i, <1>s DEF Leaves
  <1>5. CASE Tested(h)
    BY <1>1, <1>5, <1>b, <1>d, <1>e, <1>s, TestedIs DEF Moves, Is
  <1>6. CASE Draft(h)
    <2>1. PICK e : e = Edited(config, handler[h]) OBVIOUS
    <2>2. /\ handler[h].at = "editing" /\ UNCHANGED <<config, pool, file, temp>>
          /\ Moves(h, "drafted", e, handler[h].built)
      BY <1>1, <1>6, <2>1, DraftIs
    <2>3. IsConfig(config) /\ IsConfig(handler[h].draft) /\ handler[h].change.kind \in Kinds
      BY <1>1, <2>2 DEF Shapes, IsLocals
    <2>4. ASSUME NEW r \in e.relays PROVE Applied(r.edit)' \/ r.edit = handler[h].token
      <3>1. CASE r.edit = handler[h].token BY <3>1
      <3>2. ASSUME NEW q \in config.relays, r.edit = q.edit PROVE Applied(r.edit)'
        BY <1>4, <3>2 DEF Traces, ConfigApplied
      <3>3. ASSUME NEW q \in handler[h].draft.relays, r.edit = q.edit
            PROVE  Applied(r.edit)' \/ r.edit = handler[h].token
        BY <1>4, <3>3 DEF Traces, DraftApplied
      <3> QED BY <2>1, <2>3, <3>1, <3>2, <3>3, EditedIs
    <2>5. DraftApplied(h)' BY <2>2, <2>4 DEF DraftApplied, Moves, Is
    <2> QED BY <1>b, <1>s, <2>2, <2>5 DEF Moves, Is
  <1>7. CASE Load(h)
    <2>1. CASE Moves(h, "drafted", file.holds, handler[h].built)
      <3>1. DraftApplied(h)' BY <1>4, <2>1 DEF Moves, Is, DraftApplied, Traces, ConfigApplied
      <3> QED BY <1>1, <1>7, <1>b, <1>s, <2>1, <3>1, LoadIs DEF Moves, Is
    <2> QED BY <1>1, <1>7, <1>e, <2>1, LoadIs
  <1>8. CASE Apply(h)
    <2>1. PICK p : p = Rebuilt(pool.relays, handler[h].draft) OBVIOUS
    <2>2. CASE Moves(h, "storing", handler[h].draft, p)
      <3>1. Applied(handler[h].token)' BY <1>3, <2>2 DEF Moves, Is, Early
      <3>2. ASSUME NEW r \in handler[h].draft.relays PROVE Applied(r.edit)'
        <4>1. CASE Applied(r.edit) BY <1>4, <4>1
        <4>2. CASE r.edit = handler[h].token BY <2>2, <3>1, <4>2 DEF Applied, Moves, Is
        <4> QED BY <4>1, <4>2 DEF Traces, DraftApplied
      <3>3. DraftApplied(h)' BY <2>2, <3>2 DEF Moves, Is, DraftApplied
      <3>4. ASSUME NEW id \in DOMAIN p PROVE Applied(p[id].edit)'
        <4>1. /\ RelayOf(handler[h].draft, id) \in handler[h].draft.relays
              /\ p[id].edit = RelayOf(handler[h].draft, id).edit
          BY <2>1, RebuiltIs, RelayOfIs
        <4> QED BY <3>2, <4>1
      <3>5. PoolApplied(handler[h].built)' BY <2>2, <3>4 DEF Moves, Is, PoolApplied
      <3> QED BY <1>1, <1>8, <1>s, <3>3, <3>5, ApplyIs
    <2> QED BY <1>1, <1>8, <1>e, <2>1, <2>2, ApplyIs
  <1>9. CASE StoreConfig(h) \/ StoreMirror(h)
    <2>1. /\ handler[h].at \notin {"editing", "drafted"} /\ UNCHANGED <<pool, file, temp>>
          /\ config' = handler[h].draft
          /\ handler'[h].draft = handler[h].draft /\ handler'[h].built = handler[h].built
      BY <1>1, <1>9, StoreConfigIs, StoreMirrorIs DEF Moves, Is
    <2>2. ConfigApplied(config)'
      BY <1>4, <2>1 DEF Traces, DraftApplied, ConfigApplied
    <2> QED BY <1>3, <1>4, <1>b, <1>d, <1>f, <1>p, <1>t, <2>1, <2>2, TracesStep
  <1>10. CASE StorePool(h)
    <2>1. /\ UNCHANGED <<config, file, temp>> /\ pool'.relays = handler[h].built
          /\ handler[h].at \notin {"editing", "drafted"}
      BY <1>1, <1>10, StorePoolIs
    <2>2. PoolApplied(pool.relays)' BY <1>4, <2>1 DEF Traces, PoolApplied
    <2>3. PoolApplied(handler[h].built)' /\ DraftApplied(h)'
      BY <1>1, <1>10, <1>b, <1>d, <1>i, <2>1, StorePoolIs DEF Moves, Is, Leaves
    <2> QED BY <1>3, <1>4, <1>c, <1>f, <1>t, <2>1, <2>2, <2>3, TracesStep
  <1>11. CASE Switch(h) \/ Choose(h)
    <2>1. UNCHANGED <<config, file, temp>> /\ SameRelays /\ handler[h].at \notin {"editing", "drafted"}
      BY <1>1, <1>11, SwitchIs
    <2>2. PoolApplied(pool.relays)' BY <1>4, <2>1 DEF Traces, PoolApplied, SameRelays
    <2>3. PoolApplied(handler[h].built)' /\ DraftApplied(h)'
      BY <1>1, <1>11, <1>b, <1>d, <1>i, <2>1, SwitchIs DEF Moves, Is, Leaves
    <2> QED BY <1>3, <1>4, <1>c, <1>f, <1>t, <2>1, <2>2, <2>3, TracesStep
  <1>12. CASE Mirror(h)
    <2>1. PICK d : d = Mirrored(config, handler[h].marks) OBVIOUS
    <2>2. Moves(h, "noting", d, handler[h].built) /\ UNCHANGED <<config, pool, file, temp>>
      BY <1>1, <1>12, <2>1, MirrorIs
    <2>3. StandsFor(d, config) BY <1>1, <2>1, MirroredIs DEF Shapes
    <2>4. ASSUME NEW r \in d.relays PROVE Applied(r.edit)'
      BY <1>4, <2>3 DEF StandsFor, Traces, ConfigApplied
    <2>5. DraftApplied(h)' BY <2>2, <2>4 DEF Moves, Is, DraftApplied
    <2> QED BY <1>b, <1>s, <2>2, <2>5 DEF Moves, Is
  <1>13. CASE SaveReads(h)
    <2>1. CASE Moves(h, "opening", config, handler[h].built)
      <3>1. DraftApplied(h)' BY <1>4, <2>1 DEF Moves, Is, DraftApplied, Traces, ConfigApplied
      <3> QED BY <1>1, <1>13, <1>b, <1>s, <2>1, <3>1, SaveReadsIs DEF Moves, Is
    <2> QED BY <1>1, <1>13, <1>e, <2>1, SaveReadsIs
  <1>14. CASE Open(h)
    <2>1. /\ handler[h].at \notin {"editing", "drafted"} /\ UNCHANGED <<config, pool, file>> /\ temp' = Torn
          /\ handler'[h].draft = handler[h].draft /\ handler'[h].built = handler[h].built
      BY <1>1, <1>14, OpenIs DEF Moves, Is
    <2>2. ConfigApplied(temp.holds)' BY <2>1, FilesAre, NoConfigIs DEF ConfigApplied
    <2> QED BY <1>3, <1>4, <1>b, <1>c, <1>d, <1>f, <1>p, <2>1, <2>2, TracesStep
  <1>15. CASE Write(h)
    <2>1. /\ handler[h].at = "writing" /\ UNCHANGED <<config, pool>>
          /\ temp' \in IF handler[h].fd = "temp" THEN Written(temp, handler[h].draft) ELSE {temp}
          /\ file' \in IF handler[h].fd = "file" THEN Written(file, handler[h].draft) ELSE {file}
          /\ handler'[h].draft = handler[h].draft /\ handler'[h].built = handler[h].built
      BY <1>1, <1>15, WriteIs DEF Moves, Is
    <2>2. IsConfig(handler[h].draft) /\ UniqueIds(handler[h].draft)
      BY <2>1 DEF WellFormed, Shapes, NoTwins, IsLocals, Vetted
    <2>3. \A r \in handler[h].draft.relays : Applied(r.edit)'
      BY <1>4, <2>1 DEF Traces, DraftApplied
    <2>4. ASSUME NEW f, f = Whole(handler[h].draft) \/ f = Torn
          PROVE  \A r \in f.holds.relays : Applied(r.edit)'
      BY <2>3, <2>4, FilesAre, NoConfigIs
    <2>5. ConfigApplied(temp.holds)' BY <1>t, <2>1, <2>2, <2>4, WrittenIs DEF ConfigApplied
    <2>6. ConfigApplied(file.holds)' BY <1>f, <2>1, <2>2, <2>4, WrittenIs DEF ConfigApplied
    <2> QED BY <1>3, <1>4, <1>b, <1>c, <1>d, <1>p, <2>1, <2>5, <2>6, TracesStep
  <1>16. CASE WriteFails(h) BY <1>1, <1>16, <1>e, WriteFailsIs
  <1>17. CASE Rename(h)
    <2>1. CASE file' = temp /\ temp' = Nothing /\ Leaves(h, "saved")
      <3>1. ConfigApplied(file.holds)' BY <1>4, <2>1 DEF Traces, ConfigApplied
      <3>2. ConfigApplied(temp.holds)' BY <2>1, FilesAre, NoConfigIs DEF ConfigApplied
      <3>3. PoolApplied(handler[h].built)' /\ DraftApplied(h)' BY <1>i, <2>1 DEF Leaves
      <3>4. UNCHANGED <<config, pool>> BY <1>1, <1>17, RenameIs
      <3> QED BY <1>3, <1>4, <1>c, <1>p, <3>1, <3>2, <3>3, <3>4, TracesStep
    <2> QED BY <1>1, <1>17, <1>e, <2>1, RenameIs
  <1> QED BY <1>5, <1>6, <1>7, <1>8, <1>9, <1>10, <1>11, <1>12, <1>13, <1>14, <1>15, <1>16,
             <1>17 DEF Step

LEMMA TracesNext == WellFormed /\ Traces /\ [Next]_vars => Traces'
  <1> SUFFICES ASSUME WellFormed, Traces, [Next]_vars PROVE Traces'
    OBVIOUS
  <1>1. CASE Restart
    <2>1. /\ config' = file.holds /\ UNCHANGED <<file, temp, begun, refused>>
          /\ pool'.relays = Built(file.holds)
          /\ handler' = [h \in Handlers |-> Idle]
      BY <1>1 DEF Restart
    <2>2. Tokens' BY <2>1, IdleLocals DEF Traces, Tokens
    <2>3. \A t : Applied(t) => Applied(t)' BY <2>1, IdleLocals DEF Applied, Early
    <2>4. ConfigApplied(config)' /\ ConfigApplied(file.holds)' /\ ConfigApplied(temp.holds)'
      BY <2>1, <2>3 DEF Traces, ConfigApplied
    <2>5. ASSUME NEW id \in IdsOf(file.holds) PROVE Applied(Built(file.holds)[id].edit)'
      <3>1. PICK r \in file.holds.relays : Built(file.holds)[id].edit = r.edit
        BY BuiltIs, RelayOfIs
      <3>2. Applied(r.edit) BY DEF Traces, ConfigApplied
      <3>3. Applied(r.edit)' BY <2>3, <3>2
      <3> QED BY <2>1, <3>1, <3>3 DEF Applied
    <2>6. PoolApplied(pool.relays)' BY <2>1, <2>5, BuiltIs DEF PoolApplied
    <2>7. \A h \in Handlers : PoolApplied(handler[h].built)' /\ DraftApplied(h)'
      BY <2>1, IdleLocals, NoConfigIs DEF PoolApplied, DraftApplied
    <2> QED BY <2>2, <2>4, <2>6, <2>7 DEF Traces
  <1>2. ASSUME NEW h \in Handlers, BeginAny(h) PROVE Traces'
    <2>1. Began(h) /\ Fresh(h, handler'[h]) BY <1>2, BeginAnyIs DEF WellFormed
    <2>2. Tokens' /\ \A t : Applied(t) => Applied(t)' BY <2>1, BeganKeepsTokens DEF Traces
    <2>3. UNCHANGED <<config, pool, file, temp>> /\ Others(h) BY <2>1 DEF Began
    <2>4. ConfigApplied(config)' /\ ConfigApplied(file.holds)' /\ ConfigApplied(temp.holds)'
      BY <2>2, <2>3 DEF Traces, ConfigApplied
    <2>5. PoolApplied(pool.relays)' BY <2>2, <2>3 DEF Traces, PoolApplied
    <2>6. PoolApplied(handler[h].built)' BY <2>1 DEF Fresh, PoolApplied
    <2>7. DraftApplied(h)' BY <2>1, <2>2, NoConfigIs DEF Fresh, DraftApplied, Traces, ConfigApplied
    <2> QED BY <2>2, <2>3, <2>4, <2>5, <2>6, <2>7, TracesStep
  <1>3. ASSUME NEW h \in Handlers, Step(h) PROVE Traces' BY <1>3, StepKeepsTraces
  <1>4. CASE UNCHANGED vars
    BY <1>4 DEF vars, ghosts, Traces, Tokens, ConfigApplied, PoolApplied, DraftApplied, Applied
  <1> QED BY <1>1, <1>2, <1>3, <1>4 DEF Next

\* A request that was refused leaves nothing of its own in the configuration, in the
\* pool or in the file, however its steps and those of others fall, and whether a write
\* fails or the process ends among them (apply_config, state.rs).
THEOREM RefusedLeavesNoTrace == Spec => []RefusedTraceless
  <1>1. Traces => RefusedTraceless
    BY DEF Traces, ConfigApplied, PoolApplied, Applied, RefusedTraceless
  <1> QED BY <1>1, WellFormedAlways, TracesInit, TracesNext, PTL DEF Spec

-----------------------------------------------------------------------------
(* While requests do not overlap: what is saved.                           *)

Alone == \A g, h \in Handlers : handler[g].at # "idle" /\ handler[h].at # "idle" => g = h

Saving ==
  ~overlap =>
    /\ Alone /\ file.state = "whole"
    /\ \A h \in Handlers :
         /\ handler[h].at \in {"opening", "writing", "renaming"} => handler[h].draft = config
         /\ handler[h].at = "writing" => handler[h].fd = "temp" /\ temp = Torn
         /\ handler[h].at = "renaming" => temp = Whole(config)
    /\ Busy = {} /\ last = "saved" => file = Whole(config)

LEMMA SavingInit == Init => Saving
  BY IdleLocals, FilesAre DEF Init, Saving, Alone, Busy, At

\* While a request is alone, what its step has to show is about itself.
LEMMA SavingStep ==
  ASSUME Saving, ~overlap, NEW h \in Handlers, Runs(h), file'.state = "whole",
         handler'[h].at \in {"opening", "writing", "renaming"} => handler'[h].draft = config',
         handler'[h].at = "writing" => handler'[h].fd = "temp" /\ temp' = Torn,
         handler'[h].at = "renaming" => temp' = Whole(config'),
         handler'[h].at = "idle" /\ last' = "saved" => file' = Whole(config')
  PROVE  Saving'
  <1>1. \A g \in Handlers \ {h} : handler[g].at = "idle" /\ handler'[g].at = "idle"
    BY DEF Saving, Alone, Runs, Others
  <1>2. Alone' BY <1>1 DEF Alone
  <1>3. Busy' = {} => handler'[h].at = "idle" BY DEF Busy, At
  <1> QED BY <1>1, <1>2, <1>3 DEF Saving

LEMMA StepKeepsSaving ==
  ASSUME WellFormed, Saving, NEW h \in Handlers, Step(h)
  PROVE  Saving'
  <1>1. Shapes /\ Runs(h) BY StepRuns DEF WellFormed
  <1>2. overlap' = overlap BY <1>1 DEF Runs
  <1> SUFFICES ASSUME ~overlap PROVE Saving'
    BY <1>2 DEF Saving
  <1>3. /\ file.state = "whole"
        /\ handler[h].at \in {"opening", "writing", "renaming"} => handler[h].draft = config
        /\ handler[h].at = "writing" => handler[h].fd = "temp" /\ temp = Torn
        /\ handler[h].at = "renaming" => temp = Whole(config)
    BY DEF Saving
  <1>m. ASSUME NEW at, NEW draft, NEW built, Moves(h, at, draft, built), file' = file,
               at \notin {"idle", "opening", "writing", "renaming"}
        PROVE  Saving'
    BY <1>1, <1>3, <1>m, SavingStep DEF Moves, Is
  <1>e. ASSUME NEW answer, Leaves(h, answer), answer # "saved", file' = file PROVE Saving'
    BY <1>1, <1>3, <1>e, IdleLocals, SavingStep DEF Leaves
  <1>4. CASE Tested(h) BY <1>1, <1>4, <1>m, <1>e, TestedIs
  <1>5. CASE Draft(h) BY <1>1, <1>5, <1>m, DraftIs
  <1>6. CASE Load(h) BY <1>1, <1>6, <1>m, <1>e, LoadIs
  <1>7. CASE Apply(h) BY <1>1, <1>7, <1>m, <1>e, ApplyIs
  <1>8. CASE StoreConfig(h) BY <1>1, <1>8, <1>m, StoreConfigIs
  <1>9. CASE StorePool(h) BY <1>1, <1>9, <1>m, <1>e, StorePoolIs
  <1>10. CASE Switch(h) \/ Choose(h) BY <1>1, <1>10, <1>m, <1>e, SwitchIs
  <1>11. CASE Mirror(h) BY <1>1, <1>11, <1>m, MirrorIs
  <1>12. CASE StoreMirror(h) BY <1>1, <1>12, <1>m, StoreMirrorIs
  <1>13. CASE SaveReads(h)
    <2>1. CASE Moves(h, "opening", config, handler[h].built)
      BY <1>1, <1>3, <1>13, <2>1, SaveReadsIs, SavingStep DEF Moves, Is
    <2> QED BY <1>1, <1>13, <1>e, <2>1, SaveReadsIs
  <1>14. CASE Open(h) BY <1>1, <1>3, <1>14, OpenIs, SavingStep DEF Moves, Is
  <1>15. CASE Write(h)
    <2>1. /\ handler[h].fd = "temp" /\ temp = Torn /\ handler[h].draft = config
          /\ config' = config /\ temp' \in Written(Torn, config) /\ file' = file
      BY <1>1, <1>3, <1>15, WriteIs
    <2>2. temp' = Whole(config) BY <2>1, FilesAre DEF Written
    <2> QED BY <1>1, <1>3, <1>15, <2>1, <2>2, WriteIs, SavingStep DEF Moves, Is
  <1>16. CASE WriteFails(h) BY <1>1, <1>16, <1>e, WriteFailsIs
  <1>17. CASE Rename(h)
    <2>1. temp = Whole(config) /\ config' = config BY <1>1, <1>3, <1>17, RenameIs
    <2>2. file' = Whole(config) /\ handler'[h] = Idle
      BY <1>1, <1>17, <2>1, FilesAre, RenameIs DEF Leaves
    <2> QED BY <1>1, <2>1, <2>2, FilesAre, IdleLocals, SavingStep
  <1> QED BY <1>4, <1>5, <1>6, <1>7, <1>8, <1>9, <1>10, <1>11, <1>12, <1>13, <1>14, <1>15,
             <1>16, <1>17 DEF Step

LEMMA SavingNext == WellFormed /\ Saving /\ [Next]_vars => Saving'
  <1> SUFFICES ASSUME WellFormed, Saving, [Next]_vars PROVE Saving'
    OBVIOUS
  <1>1. CASE Restart BY <1>1, IdleLocals DEF Restart, Saving, Alone
  <1>2. ASSUME NEW h \in Handlers, BeginAny(h) PROVE Saving'
    <2>1. Began(h) /\ Fresh(h, handler'[h]) BY <1>2, BeginAnyIs DEF WellFormed
    <2> SUFFICES ASSUME ~overlap' PROVE Saving'
      BY DEF Saving
    <2>2. ~overlap /\ Busy = {} /\ last' = "none" /\ UNCHANGED <<config, file, temp>>
      BY <2>1 DEF Began
    <2>3. \A g \in Handlers \ {h} : handler'[g].at = "idle"
      BY <2>1, <2>2 DEF Began, Others, Busy, At
    <2>4. handler'[h].at \notin {"opening", "writing", "renaming"} BY <2>1 DEF Fresh, First
    <2> QED BY <2>2, <2>3, <2>4 DEF Saving, Alone
  <1>3. ASSUME NEW h \in Handlers, Step(h) PROVE Saving' BY <1>3, StepKeepsSaving
  <1>4. CASE UNCHANGED vars BY <1>4 DEF vars, ghosts, Saving, Alone, Busy, At
  <1> QED BY <1>1, <1>2, <1>3, <1>4 DEF Next

LEMMA SavingAlways == Spec => []Saving
  BY WellFormedAlways, SavingInit, SavingNext, PTL DEF Spec

\* Whenever the process ends and whatever write fails, the file is a whole configuration
\* unless two requests were saving at once (save, config.rs).
THEOREM FileStaysWhole == Spec => []FileWhole
  <1>1. Saving => FileWhole BY DEF Saving, FileWhole
  <1> QED BY <1>1, SavingAlways, PTL

\* Once a request has answered that its change is saved, the file is the configuration
\* in force (persist_config, state.rs).
THEOREM SavedIsInForce == Spec => []SavedStays
  <1>1. Saving => SavedStays BY DEF Saving, SavedStays
  <1> QED BY <1>1, SavingAlways, PTL

-----------------------------------------------------------------------------
(* The pool follows the configuration, however requests overlap.           *)

Matching(p, c) ==
  DOMAIN p = IdsOf(c) /\ \A r \in c.relays : p[r.id].edit = r.edit

LEMMA UniqueRelay ==
  ASSUME NEW c, UniqueIds(c), NEW r \in c.relays
  PROVE  r.id \in IdsOf(c) /\ RelayOf(c, r.id) = r
  <1>1. r.id \in IdsOf(c) BY DEF IdsOf
  <1> QED BY <1>1, RelayOfIs DEF UniqueIds

LEMMA BuiltMatches ==
  ASSUME NEW c, UniqueIds(c), NEW p
  PROVE  Matching(Built(c), c) /\ Matching(Rebuilt(p, c), c)
  <1>1. PICK n : n = Rebuilt(p, c) OBVIOUS
  <1>2. /\ DOMAIN n = IdsOf(c) /\ DOMAIN Built(c) = IdsOf(c)
        /\ \A id \in IdsOf(c) : /\ n[id].edit = RelayOf(c, id).edit
                               /\ Built(c)[id].edit = RelayOf(c, id).edit
    BY <1>1, BuiltIs, RebuiltIs
  <1>3. \A r \in c.relays : r.id \in IdsOf(c) /\ RelayOf(c, r.id) = r BY UniqueRelay
  <1> QED BY <1>1, <1>2, <1>3 DEF Matching

LEMMA MatchingStandIn ==
  ASSUME NEW p, NEW c, NEW d, Matching(p, c), StandsFor(d, c)
  PROVE  Matching(p, d)
  BY DEF Matching, StandsFor, IdsOf


\* What is about to become the pool is built of what is about to become the
\* configuration; and of the one request that is replacing it, unless two did at once.
Installing ==
  /\ \A h \in Handlers :
       handler[h].at = "storing" => Matching(handler[h].built, handler[h].draft)
  /\ ~raced =>
       /\ \A g, h \in Handlers : Replacing(g) /\ Replacing(h) => g = h
       /\ \A h \in Handlers :
            /\ handler[h].at = "swapping" => Matching(handler[h].built, config)
            /\ handler[h].at = "noting" => StandsFor(handler[h].draft, config)
       /\ (\A h \in Handlers : handler[h].at # "swapping") => Matching(pool.relays, config)

LEMMA InstallingInit == Init => Installing
  <1> SUFFICES ASSUME Init PROVE Installing
    OBVIOUS
  <1>1. UniqueIds(config) BY WellFormedInit DEF WellFormed, NoTwins
  <1>2. pool.relays = Built(config) /\ \A h \in Handlers : handler[h].at = "idle"
    BY IdleIs DEF Init
  <1>3. Matching(pool.relays, config) BY <1>1, <1>2, BuiltMatches
  <1> QED BY <1>2, <1>3 DEF Installing, Replacing

\* A request that is not replacing the configuration, before or after its step, may
\* build a pool, or set switches.
LEMMA InstallingBeside ==
  ASSUME Installing, NEW h \in Handlers, Others(h),
         ~Replacing(h), ~Replacing(h)',
         handler'[h].at = "storing" => Matching(handler'[h].built, handler'[h].draft),
         config' = config, pool' = pool \/ SameRelays, raced' = raced
  PROVE  Installing'
  <1>1. Matching(pool.relays, config) => Matching(pool'.relays, config')
    BY DEF Matching, SameRelays, IdsOf
  <1>2. \A g \in Handlers \ {h} :
          /\ handler'[g].at = handler[g].at /\ handler'[g].draft = handler[g].draft
          /\ handler'[g].built = handler[g].built
    BY DEF Others
  <1>3. \A g \in Handlers : Replacing(g)' => Replacing(g) /\ g # h
    BY <1>2 DEF Replacing
  <1>4. handler[h].at # "swapping" /\ handler'[h].at \notin {"swapping", "noting"}
    BY DEF Replacing
  <1>5. ASSUME ~raced'
        PROVE  /\ \A g \in Handlers :
                    /\ handler'[g].at = "swapping" => Matching(handler'[g].built, config')
                    /\ handler'[g].at = "noting" => StandsFor(handler'[g].draft, config')
               /\ (\A g \in Handlers : handler'[g].at # "swapping") =>
                    Matching(pool'.relays, config')
    BY <1>1, <1>2, <1>4, <1>5 DEF Installing
  <1> QED BY <1>2, <1>3, <1>5 DEF Installing

\* Of two requests that were replacing the configuration, `raced` tells.
LEMMA RacedIs ==
  ASSUME NEW h \in Handlers, Step(h)
  PROVE  raced' = raced \/ StoreConfig(h) \/ Mirror(h)
  <1>1. CASE Tested(h) \/ Draft(h) \/ Load(h) \/ Apply(h) BY <1>1 DEF Tested, Draft, Load, Apply, Ends, ghosts
  <1>2. CASE StorePool(h) \/ Switch(h) \/ Choose(h) \/ StoreMirror(h)
    BY <1>2 DEF StorePool, Switch, Choose, Sets, StoreMirror, Ends, ghosts
  <1>3. CASE SaveReads(h) \/ Open(h) \/ Write(h) \/ WriteFails(h) \/ Rename(h)
    BY <1>3 DEF SaveReads, Open, Write, WriteFails, Rename, Ends, ghosts
  <1> QED BY <1>1, <1>2, <1>3 DEF Step

LEMMA StepKeepsInstalling ==
  ASSUME WellFormed, Installing, NEW h \in Handlers, Step(h)
  PROVE  Installing'
  <1>0. Shapes BY DEF WellFormed
  <1>e. Idle.at = "idle" BY IdleIs
  \* What h leaves behind when it had been the only one replacing.
  <1>o. ASSUME ~raced, Replacing(h), Others(h)
        PROVE  /\ \A g \in Handlers \ {h} : ~Replacing(g)'
               /\ \A g \in Handlers \ {h} : handler'[g].at \notin {"swapping", "noting"}
    BY <1>o DEF Installing, Replacing, Others
  <1>s. ASSUME NEW g \in Handlers \ {h}, Others(h), handler'[g].at = "storing"
        PROVE  Matching(handler'[g].built, handler'[g].draft)
    BY <1>s DEF Installing, Others
  <1>1. CASE Apply(h)
    <2>1. PICK p : p = Rebuilt(pool.relays, handler[h].draft) OBVIOUS
    <2>2. handler[h].at = "drafted" /\ UNCHANGED <<config, pool>> /\ ~Replacing(h)
      BY <1>0, <1>1, ApplyIs DEF Replacing
    <2>3. raced' = raced BY <1>1 DEF Apply, Ends, ghosts
    <2>4. CASE UniqueIds(handler[h].draft) /\ Moves(h, "storing", handler[h].draft, p)
      <3>1. Matching(p, handler[h].draft) BY <2>1, <2>4, BuiltMatches
      <3>2. Others(h) /\ ~Replacing(h)' BY <2>4 DEF Moves, Is, Replacing
      <3>3. Matching(handler'[h].built, handler'[h].draft) BY <2>4, <3>1 DEF Moves, Is
      <3> QED BY <2>2, <2>3, <3>2, <3>3, InstallingBeside
    <2>5. CASE Leaves(h, "refused")
      <3>1. Others(h) /\ ~Replacing(h)' /\ handler'[h].at # "storing"
        BY <1>e, <2>5 DEF Leaves, Replacing
      <3> QED BY <2>2, <2>3, <3>1, InstallingBeside
    <2> QED BY <1>0, <1>1, <2>1, <2>4, <2>5, ApplyIs
  <1>2. CASE StoreConfig(h)
    <2>1. /\ handler[h].at = "storing" /\ config' = handler[h].draft
          /\ Moves(h, "swapping", handler[h].draft, handler[h].built)
      BY <1>0, <1>2, StoreConfigIs
    <2>2. raced' = (raced \/ \E g \in Handlers \ {h} : Replacing(g))
      BY <1>2 DEF StoreConfig, Races
    <2>3. Matching(handler'[h].built, config') /\ handler'[h].at = "swapping" /\ Others(h)
      BY <2>1 DEF Installing, Moves, Is
    <2>4. ASSUME ~raced', NEW g \in Handlers \ {h}
          PROVE  handler'[g].at \notin {"swapping", "noting"} /\ ~Replacing(g)'
      BY <2>2, <2>3, <2>4 DEF Others, Replacing
    <2> QED BY <1>s, <2>3, <2>4 DEF Installing
  <1>3. CASE StorePool(h)
    <2>1. /\ handler[h].at = "swapping" /\ config' = config
          /\ pool'.relays = handler[h].built /\ Replacing(h)
      BY <1>0, <1>3, StorePoolIs DEF Replacing
    <2>2. raced' = raced BY <1>3 DEF StorePool, Ends, ghosts
    <2>3. Others(h) /\ handler'[h].at \in {"saving", "idle"}
      BY <1>0, <1>3, <1>e, StorePoolIs DEF Moves, Is, Leaves
    <2>4. ASSUME ~raced'
          PROVE  Matching(pool'.relays, config')
      BY <2>1, <2>2, <2>4 DEF Installing
    <2>5. ~Replacing(h)' BY <2>3 DEF Replacing
    <2> QED BY <1>o, <1>s, <2>1, <2>2, <2>3, <2>4, <2>5 DEF Installing
  <1>4. CASE Mirror(h)
    <2>1. PICK d : d = Mirrored(config, handler[h].marks) OBVIOUS
    <2>2. /\ handler[h].at = "mirroring" /\ UNCHANGED <<config, pool>>
          /\ Moves(h, "noting", d, handler[h].built)
      BY <1>0, <1>4, <2>1, MirrorIs
    <2>3. raced' = (raced \/ \E g \in Handlers \ {h} : Replacing(g))
      BY <1>4 DEF Mirror, Races
    <2>4. StandsFor(d, config) BY <1>0, <2>1, MirroredIs DEF Shapes
    <2>5. /\ Others(h) /\ handler'[h].at = "noting" /\ StandsFor(handler'[h].draft, config')
          /\ Replacing(h)'
      BY <2>2, <2>4 DEF Moves, Is, StandsFor, Replacing
    <2>6. ASSUME ~raced', NEW g \in Handlers \ {h}
          PROVE  /\ handler'[g].at \notin {"swapping", "noting"} /\ ~Replacing(g)'
                 /\ handler[g].at # "swapping"
      BY <2>3, <2>5, <2>6 DEF Others, Replacing
    <2>7. ASSUME ~raced' PROVE Matching(pool'.relays, config')
      BY <2>2, <2>3, <2>6, <2>7 DEF Installing
    <2> QED BY <1>s, <2>5, <2>6, <2>7 DEF Installing
  <1>5. CASE StoreMirror(h)
    <2>1. /\ handler[h].at = "noting" /\ pool' = pool /\ config' = handler[h].draft
          /\ Moves(h, "saving", handler[h].draft, handler[h].built) /\ Replacing(h)
      BY <1>0, <1>5, StoreMirrorIs DEF Replacing
    <2>2. raced' = raced BY <1>5 DEF StoreMirror, ghosts
    <2>3. Others(h) /\ handler'[h].at = "saving" /\ ~Replacing(h)'
      BY <2>1 DEF Moves, Is, Replacing
    <2>4. ASSUME ~raced' PROVE Matching(pool'.relays, config')
      <3>1. StandsFor(handler[h].draft, config) BY <2>1, <2>2, <2>4 DEF Installing
      <3>2. \A g \in Handlers : handler[g].at # "swapping"
        BY <2>1, <2>2, <2>4 DEF Installing, Replacing
      <3>3. Matching(pool.relays, config) BY <2>2, <2>4, <3>2 DEF Installing
      <3> QED BY <2>1, <3>1, <3>3, MatchingStandIn
    <2> QED BY <1>o, <1>s, <2>1, <2>2, <2>3, <2>4 DEF Installing
  <1>6. CASE /\ ~(Apply(h) \/ StoreConfig(h) \/ StorePool(h) \/ Mirror(h) \/ StoreMirror(h))
    <2>1. raced' = raced BY <1>6, RacedIs
    <2>2. ASSUME NEW at, NEW draft, NEW built, Moves(h, at, draft, built),
                 at \notin {"storing", "swapping", "noting"}
          PROVE  Others(h) /\ ~Replacing(h)' /\ handler'[h].at # "storing"
      BY <2>2 DEF Moves, Is, Replacing
    <2>3. ASSUME NEW answer, Leaves(h, answer)
          PROVE  Others(h) /\ ~Replacing(h)' /\ handler'[h].at # "storing"
      BY <1>e, <2>3 DEF Leaves, Replacing
    <2>4. CASE Switch(h) \/ Choose(h)
      <3>1. handler[h].at \in {"switching", "choosing"} /\ config' = config /\ SameRelays
        BY <1>0, <2>4, SwitchIs
      <3>2. Others(h) /\ ~Replacing(h)' /\ handler'[h].at # "storing"
        BY <1>0, <2>2, <2>3, <2>4, SwitchIs
      <3> QED BY <2>1, <3>1, <3>2, InstallingBeside DEF Replacing
    <2>5. CASE Tested(h)
      <3>1. handler[h].at = "testing" /\ UNCHANGED <<config, pool>>
        BY <1>0, <2>5, TestedIs
      <3>2. Others(h) /\ ~Replacing(h)' /\ handler'[h].at # "storing"
        BY <1>0, <2>2, <2>3, <2>5, TestedIs
      <3> QED BY <2>1, <3>1, <3>2, InstallingBeside DEF Replacing
    <2>6. CASE Draft(h)
      <3>1. handler[h].at = "editing" /\ UNCHANGED <<config, pool>>
        BY <1>0, <2>6, DraftIs
      <3>2. Others(h) /\ ~Replacing(h)' /\ handler'[h].at # "storing"
        BY <1>0, <2>2, <2>6, DraftIs
      <3> QED BY <2>1, <3>1, <3>2, InstallingBeside DEF Replacing
    <2>7. CASE Load(h)
      <3>1. handler[h].at = "loading" /\ UNCHANGED <<config, pool>>
        BY <1>0, <2>7, LoadIs
      <3>2. Others(h) /\ ~Replacing(h)' /\ handler'[h].at # "storing"
        BY <1>0, <2>2, <2>3, <2>7, LoadIs
      <3> QED BY <2>1, <3>1, <3>2, InstallingBeside DEF Replacing
    <2>8. CASE SaveReads(h)
      <3>1. handler[h].at = "saving" /\ UNCHANGED <<config, pool>>
        BY <1>0, <2>8, SaveReadsIs
      <3>2. Others(h) /\ ~Replacing(h)' /\ handler'[h].at # "storing"
        BY <1>0, <2>2, <2>3, <2>8, SaveReadsIs
      <3> QED BY <2>1, <3>1, <3>2, InstallingBeside DEF Replacing
    <2>9. CASE Open(h)
      <3>1. handler[h].at = "opening" /\ UNCHANGED <<config, pool>>
        BY <1>0, <2>9, OpenIs
      <3>2. Others(h) /\ ~Replacing(h)' /\ handler'[h].at # "storing"
        BY <1>0, <2>2, <2>9, OpenIs
      <3> QED BY <2>1, <3>1, <3>2, InstallingBeside DEF Replacing
    <2>10. CASE Write(h)
      <3>1. handler[h].at = "writing" /\ UNCHANGED <<config, pool>>
        BY <1>0, <2>10, WriteIs
      <3>2. Others(h) /\ ~Replacing(h)' /\ handler'[h].at # "storing"
        BY <1>0, <2>2, <2>10, WriteIs
      <3> QED BY <2>1, <3>1, <3>2, InstallingBeside DEF Replacing
    <2>11. CASE WriteFails(h)
      <3>1. handler[h].at = "writing" /\ UNCHANGED <<config, pool>>
        BY <1>0, <2>11, WriteFailsIs
      <3>2. Others(h) /\ ~Replacing(h)' /\ handler'[h].at # "storing"
        BY <1>0, <2>3, <2>11, WriteFailsIs
      <3> QED BY <2>1, <3>1, <3>2, InstallingBeside DEF Replacing
    <2>12. CASE Rename(h)
      <3>1. handler[h].at = "renaming" /\ UNCHANGED <<config, pool>>
        BY <1>0, <2>12, RenameIs
      <3>2. Others(h) /\ ~Replacing(h)' /\ handler'[h].at # "storing"
        BY <1>0, <2>3, <2>12, RenameIs
      <3> QED BY <2>1, <3>1, <3>2, InstallingBeside DEF Replacing
    <2> QED BY <1>6, <2>4, <2>5, <2>6, <2>7, <2>8, <2>9, <2>10, <2>11, <2>12 DEF Step
  <1> QED BY <1>1, <1>2, <1>3, <1>4, <1>5, <1>6

LEMMA InstallingNext == WellFormed /\ Installing /\ [Next]_vars => Installing'
  <1> SUFFICES ASSUME WellFormed, Installing, [Next]_vars PROVE Installing'
    OBVIOUS
  <1>1. CASE Restart
    <2>1. /\ config' = file.holds /\ pool'.relays = Built(file.holds)
          /\ \A h \in Handlers : handler'[h].at = "idle"
      BY <1>1, IdleIs DEF Restart
    <2>2. Matching(pool'.relays, config') BY <2>1, BuiltMatches DEF WellFormed, NoTwins
    <2> QED BY <2>1, <2>2 DEF Installing, Replacing
  <1>2. ASSUME NEW h \in Handlers, BeginAny(h) PROVE Installing'
    <2>1. Began(h) /\ Fresh(h, handler'[h]) BY <1>2, BeginAnyIs DEF WellFormed
    <2>2. ~Replacing(h) /\ ~Replacing(h)' /\ handler'[h].at # "storing"
      BY <2>1 DEF Began, Fresh, First, Replacing
    <2> QED BY <2>1, <2>2, InstallingBeside DEF Began
  <1>3. ASSUME NEW h \in Handlers, Step(h) PROVE Installing' BY <1>3, StepKeepsInstalling
  <1>4. CASE UNCHANGED vars
    BY <1>4 DEF vars, ghosts, Installing, Replacing, Matching, StandsFor, IdsOf
  <1> QED BY <1>1, <1>2, <1>3, <1>4 DEF Next

LEMMA InstallingAlways == Spec => []Installing
  BY WellFormedAlways, InstallingInit, InstallingNext, PTL DEF Spec

\* However requests overlap, and after a restart, the pool has the relays of the
\* configuration as the configuration has them whenever no request is between its two
\* stores, unless two replaced the configuration at once (apply_config, state.rs, and
\* rebuild_from, relay/pool.rs).
THEOREM PoolFollowsConfig == Spec => []InStep
  <1>1. Installing => InStep BY DEF Installing, Matching, InStep, At
  <1> QED BY <1>1, InstallingAlways, PTL

-----------------------------------------------------------------------------
(* While requests do not overlap: the passwords.                           *)

\* The mark is the password of no relay but those with these ids.
NoMarks(c, ids) == \A r \in c.relays : r.secret = "mark" => r.id \in ids

\* The relays of d that have a mark are relays of c, of the same user, or have these ids.
Restorable(d, c, ids) ==
  \A r \in d.relays : r.secret = "mark" =>
    r.id \in ids \/ \E s \in c.relays : s.id = r.id /\ s.user = r.user

\* What a request is about to change has no mark in it that will not be restored.
GoodChange(h) ==
  /\ handler[h].change.kind = "add" => handler[h].change.secret # "mark"
  /\ handler[h].change.kind = "update" /\ handler[h].change.secret = "mark" =>
       handler[h].change.id \in renamed
  /\ handler[h].change.kind = "replace" => Restorable(handler[h].draft, config, renamed)

\* The pool, or what is about to become the pool, is built of the configuration, or of
\* what is about to become the configuration.
Stepwise(h) ==
  /\ handler[h].at \in {"testing", "editing"} => GoodChange(h)
  /\ handler[h].at \notin {"testing", "editing"} => NoMarks(handler[h].draft, renamed)
  /\ handler[h].at = "storing" => Matching(handler[h].built, handler[h].draft)
  /\ handler[h].at = "swapping" => Matching(handler[h].built, config)
  /\ handler[h].at = "noting" => StandsFor(handler[h].draft, config)
  /\ handler[h].at # "swapping" => Matching(pool.relays, config)

Agreement ==
  ~overlap =>
    /\ NoMarks(config, renamed) /\ NoMarks(file.holds, renamed) /\ NoMarks(temp.holds, renamed)
    /\ \A h \in Handlers : handler[h].at # "idle" => Stepwise(h)
    /\ Busy = {} => Matching(pool.relays, config)

LEMMA MirroredUnmarked ==
  ASSUME NEW c, IsConfig(c), NEW ids, NoMarks(c, ids), NEW marks
  PROVE  NoMarks(Mirrored(c, marks), ids)
  <1> DEFINE noted(r) == IF r.id \in DOMAIN marks
                         THEN [r EXCEPT !.enabled = marks[r.id]] ELSE r
             S == {noted(r) : r \in c.relays}
  <1>1. ASSUME NEW r \in c.relays PROVE noted(r).secret = "mark" => noted(r).id \in ids
    BY DEF IsConfig, IsRelay, NoMarks
  <1>2. Mirrored(c, marks) = [c EXCEPT !.relays = S] BY DEF Mirrored
  <1>3. Mirrored(c, marks).relays = S BY <1>2, ConfigWith
  <1> HIDE DEF noted
  <1> QED BY <1>1, <1>3 DEF NoMarks

\* A mark that the editor sent back is replaced by the password of its relay.
LEMMA RestoredUnmarked ==
  ASSUME NEW c, IsConfig(c), NEW from, UniqueIds(from), NEW ids, NoMarks(from, ids),
         Restorable(c, from, ids)
  PROVE  NoMarks(Restored(c, from), ids)
  <1> DEFINE given(r) == IF /\ r.secret = "mark" /\ r.id \in IdsOf(from)
                            /\ RelayOf(from, r.id).user = r.user
                         THEN [r EXCEPT !.secret = RelayOf(from, r.id).secret] ELSE r
             S == {given(r) : r \in c.relays}
  <1>1. ASSUME NEW r \in c.relays PROVE given(r).secret = "mark" => given(r).id \in ids
    <2>0. IsRelay(r) BY DEF IsConfig
    <2>1. CASE r.secret # "mark" \/ r.id \in ids BY <2>0, <2>1 DEF IsRelay
    <2>2. ASSUME NEW q \in from.relays, q.id = r.id, q.user = r.user, r.secret = "mark"
          PROVE  given(r).secret = "mark" => given(r).id \in ids
      <3>1. r.id \in IdsOf(from) /\ RelayOf(from, r.id) = q BY <2>2, UniqueRelay
      <3>2. given(r) = [r EXCEPT !.secret = q.secret] BY <2>2, <3>1
      <3> QED BY <2>0, <2>2, <3>2 DEF IsRelay, NoMarks
    <2> QED BY <2>1, <2>2 DEF Restorable
  <1>2. Restored(c, from) = [c EXCEPT !.relays = S] BY DEF Restored
  <1>3. Restored(c, from).relays = S BY <1>2, ConfigWith
  <1> HIDE DEF given
  <1> QED BY <1>1, <1>3 DEF NoMarks

LEMMA EditedUnmarked ==
  ASSUME NEW c, IsConfig(c), UniqueIds(c), NEW ids, NoMarks(c, ids),
         NEW l, IsConfig(l.draft), l.change.kind \in Kinds,
         l.change.kind = "add" => l.change.secret # "mark",
         l.change.kind = "update" /\ l.change.secret = "mark" => l.change.id \in ids,
         l.change.kind = "replace" => Restorable(l.draft, c, ids)
  PROVE  NoMarks(Edited(c, l), ids)
  <1> DEFINE q == l.change
  <1>0. PICK mine : mine = Relay(q.id, l.token, q.user, q.on, q.secret) OBVIOUS
  <1>1. mine.secret = q.secret /\ mine.id = q.id BY <1>0 DEF Relay
  <1>2. CASE q.kind = "add"
    <2>1. Edited(c, l) = [c EXCEPT !.relays = c.relays \cup {mine}] BY <1>0, <1>2 DEF Edited
    <2>2. Edited(c, l).relays = c.relays \cup {mine} BY <2>1, ConfigWith
    <2> QED BY <1>1, <1>2, <2>2 DEF NoMarks
  <1>3. CASE q.kind = "update"
    <2> DEFINE S == {IF r.id = q.id THEN mine ELSE r : r \in c.relays}
    <2>1. Edited(c, l) = [c EXCEPT !.relays = S] BY <1>0, <1>3 DEF Edited
    <2>2. \A r \in S : r = mine \/ r \in c.relays OBVIOUS
    <2> HIDE DEF S
    <2>3. Edited(c, l).relays = S BY <2>1, ConfigWith
    <2> QED BY <1>1, <1>3, <2>2, <2>3 DEF NoMarks
  <1>4. CASE q.kind = "delete"
    <2> DEFINE S == {r \in c.relays : r.id # q.id}
    <2>1. Edited(c, l) = [c EXCEPT !.relays = S] BY <1>4 DEF Edited
    <2>2. \A r \in S : r \in c.relays OBVIOUS
    <2> HIDE DEF S
    <2>3. Edited(c, l).relays = S BY <2>1, ConfigWith
    <2> QED BY <2>2, <2>3 DEF NoMarks
  <1>5. CASE q.kind = "setting"
    <2>1. Edited(c, l) = [c EXCEPT !.weighted = q.on] BY <1>5 DEF Edited
    <2>2. Edited(c, l).relays = c.relays BY <2>1 DEF IsConfig
    <2> QED BY <2>2 DEF NoMarks
  <1>6. CASE q.kind = "replace"
    <2>1. Edited(c, l) = Restored(l.draft, c) BY <1>6 DEF Edited
    <2> QED BY <1>6, <2>1, RestoredUnmarked
  <1> QED BY <1>2, <1>3, <1>4, <1>5, <1>6 DEF Kinds

LEMMA AgreementInit == Init => Agreement
  <1> SUFFICES ASSUME Init PROVE Agreement
    OBVIOUS
  <1>1. WellFormed BY WellFormedInit
  <1>2. /\ handler = [h \in Handlers |-> Idle] /\ pool.relays = Built(config)
        /\ file.holds = config /\ temp.holds = NoConfig
    BY FilesAre DEF Init
  <1>3. Matching(pool.relays, config)
    BY <1>1, <1>2, BuiltMatches DEF WellFormed, NoTwins
  <1>4. NoMarks(config, renamed) BY DEF Init, NoMarks, Relay
  <1> QED BY <1>2, <1>3, <1>4, IdleLocals, NoConfigIs DEF Agreement, NoMarks

\* While a request is alone, what its step has to show is about itself.
LEMMA AgreementStep ==
  ASSUME Saving, Agreement, ~overlap, NEW h \in Handlers, Runs(h),
         NoMarks(config', renamed), NoMarks(file'.holds, renamed), NoMarks(temp'.holds, renamed),
         handler'[h].at # "idle" => Stepwise(h)',
         handler'[h].at = "idle" => Matching(pool'.relays, config')
  PROVE  Agreement'
  <1>1. \A g \in Handlers \ {h} : handler'[g].at = "idle"
    BY DEF Saving, Alone, Runs, Others
  <1>2. Busy' = {} => handler'[h].at = "idle" BY DEF Busy, At
  <1>3. renamed' = renamed BY DEF Runs
  <1> QED BY <1>1, <1>2, <1>3 DEF Agreement

LEMMA StepKeepsAgreement ==
  ASSUME WellFormed, Saving, Agreement, NEW h \in Handlers, Step(h)
  PROVE  Agreement'
  <1>1. Shapes /\ Runs(h) BY StepRuns DEF WellFormed
  <1>2. overlap' = overlap /\ renamed' = renamed /\ handler[h].at # "idle" BY <1>1 DEF Runs
  <1> SUFFICES ASSUME ~overlap PROVE Agreement'
    BY <1>2 DEF Agreement
  <1>3. /\ IsConfig(config) /\ IsConfig(file.holds) /\ IsConfig(handler[h].draft)
        /\ UniqueIds(config)
    BY DEF WellFormed, Shapes, IsFile, IsLocals, NoTwins
  <1>4. /\ NoMarks(config, renamed) /\ NoMarks(file.holds, renamed) /\ NoMarks(temp.holds, renamed) /\ Stepwise(h)
    BY <1>2 DEF Agreement
  <1>5. handler[h].at # "swapping" => Matching(pool.relays, config) BY <1>4 DEF Stepwise
  <1>n. NoMarks(NoConfig, renamed) BY NoConfigIs DEF NoMarks
  \* Steps after which the request has a draft without marks, and all is as it was.
  <1>m. ASSUME NEW at, NEW draft, NEW built, Moves(h, at, draft, built), NoMarks(draft, renamed),
               at \notin {"testing", "editing", "storing", "swapping", "noting"},
               NoMarks(file'.holds, renamed), NoMarks(temp'.holds, renamed), NoMarks(config', renamed),
               Matching(pool'.relays, config')
        PROVE  Agreement'
    <2>1. Stepwise(h)' BY <1>2, <1>m DEF Moves, Is, Stepwise, NoMarks
    <2> QED BY <1>1, <1>2, <1>m, <2>1, AgreementStep DEF Moves, Is
  <1>e. ASSUME NEW answer, Leaves(h, answer), UNCHANGED config,
               NoMarks(file'.holds, renamed), NoMarks(temp'.holds, renamed), Matching(pool'.relays, config')
        PROVE  Agreement'
    BY <1>1, <1>4, <1>e, IdleLocals, AgreementStep DEF Leaves
  <1>6. CASE Tested(h)
    <2>1. /\ handler[h].at = "testing" /\ UNCHANGED <<config, pool, file, temp>>
          /\ Matching(pool.relays, config)
      BY <1>1, <1>5, <1>6, TestedIs
    <2>2. CASE Moves(h, "editing", handler[h].draft, handler[h].built)
      <3>1. GoodChange(h)' BY <1>2, <1>4, <2>1, <2>2 DEF Stepwise, GoodChange, Moves, Is
      <3>2. Stepwise(h)' BY <2>1, <2>2, <3>1 DEF Stepwise, Moves, Is
      <3> QED BY <1>1, <1>4, <2>1, <2>2, <3>2, AgreementStep DEF Moves, Is
    <2> QED BY <1>1, <1>4, <1>6, <1>e, <2>1, <2>2, TestedIs
  <1>7. CASE Draft(h)
    <2>1. PICK e : e = Edited(config, handler[h]) OBVIOUS
    <2>2. /\ handler[h].at = "editing" /\ UNCHANGED <<config, pool, file, temp>>
          /\ Moves(h, "drafted", e, handler[h].built)
      BY <1>1, <1>7, <2>1, DraftIs
    <2>3. handler[h].change.kind \in Kinds /\ GoodChange(h)
      BY <1>1, <1>4, <2>2 DEF Shapes, Stepwise
    <2>4. NoMarks(e, renamed) BY <1>3, <1>4, <2>1, <2>3, EditedUnmarked DEF GoodChange
    <2> QED BY <1>4, <1>5, <1>m, <2>2, <2>4
  <1>8. CASE Load(h)
    <2>1. /\ handler[h].at = "loading" /\ UNCHANGED <<config, pool, file, temp>>
          /\ Matching(pool.relays, config)
      BY <1>1, <1>5, <1>8, LoadIs
    <2> QED BY <1>1, <1>4, <1>8, <1>e, <1>m, <2>1, LoadIs
  <1>9. CASE Apply(h)
    <2>1. /\ handler[h].at = "drafted" /\ UNCHANGED <<config, pool, file, temp>>
          /\ Matching(pool.relays, config) /\ NoMarks(handler[h].draft, renamed)
      BY <1>1, <1>4, <1>5, <1>9, ApplyIs DEF Stepwise
    <2>2. PICK p : p = Rebuilt(pool.relays, handler[h].draft) OBVIOUS
    <2>3. CASE UniqueIds(handler[h].draft) /\ Moves(h, "storing", handler[h].draft, p)
      <3>1. Matching(p, handler[h].draft) BY <2>2, <2>3, BuiltMatches
      <3>2. Stepwise(h)' BY <1>2, <2>1, <2>3, <3>1 DEF Stepwise, Moves, Is
      <3> QED BY <1>1, <1>4, <2>1, <2>3, <3>2, AgreementStep DEF Moves, Is
    <2> QED BY <1>1, <1>4, <1>9, <1>e, <2>1, <2>2, <2>3, ApplyIs
  <1>10. CASE StoreConfig(h)
    <2>1. /\ handler[h].at = "storing" /\ UNCHANGED <<pool, file, temp>>
          /\ config' = handler[h].draft
          /\ Moves(h, "swapping", handler[h].draft, handler[h].built)
      BY <1>1, <1>10, StoreConfigIs
    <2>2. NoMarks(handler[h].draft, renamed) /\ Matching(handler[h].built, handler[h].draft)
      BY <1>4, <2>1 DEF Stepwise
    <2>3. Stepwise(h)' BY <1>2, <2>1, <2>2 DEF Stepwise, Moves, Is
    <2> QED BY <1>1, <1>4, <2>1, <2>2, <2>3, AgreementStep DEF Moves, Is
  <1>11. CASE StorePool(h)
    <2>1. /\ handler[h].at = "swapping" /\ UNCHANGED <<config, file, temp>>
          /\ pool'.relays = handler[h].built
      BY <1>1, <1>11, StorePoolIs
    <2>2. Matching(pool'.relays, config') /\ NoMarks(handler[h].draft, renamed)
      BY <1>4, <2>1 DEF Stepwise
    <2> QED BY <1>1, <1>4, <1>11, <1>e, <1>m, <2>1, <2>2, StorePoolIs
  <1>12. CASE Switch(h) \/ Choose(h)
    <2>1. /\ handler[h].at \in {"switching", "choosing"} /\ UNCHANGED <<config, file, temp>>
          /\ SameRelays
      BY <1>1, <1>12, SwitchIs
    <2>2. Matching(pool'.relays, config') /\ NoMarks(handler[h].draft, renamed)
      BY <1>4, <2>1 DEF Stepwise, Matching, SameRelays, IdsOf
    <2> QED BY <1>1, <1>4, <1>12, <1>e, <1>m, <2>1, <2>2, SwitchIs
  <1>13. CASE Mirror(h)
    <2>1. PICK d : d = Mirrored(config, handler[h].marks) OBVIOUS
    <2>2. /\ handler[h].at = "mirroring" /\ UNCHANGED <<config, pool, file, temp>>
          /\ Moves(h, "noting", d, handler[h].built)
      BY <1>1, <1>13, <2>1, MirrorIs
    <2>3. StandsFor(d, config) /\ NoMarks(d, renamed) BY <1>3, <1>4, <2>1, MirroredIs, MirroredUnmarked
    <2>4. Stepwise(h)' BY <1>2, <1>5, <2>2, <2>3 DEF Stepwise, Moves, Is
    <2> QED BY <1>1, <1>4, <2>2, <2>4, AgreementStep DEF Moves, Is
  <1>14. CASE StoreMirror(h)
    <2>1. /\ handler[h].at = "noting" /\ UNCHANGED <<pool, file, temp>>
          /\ config' = handler[h].draft
          /\ Moves(h, "saving", handler[h].draft, handler[h].built)
      BY <1>1, <1>14, StoreMirrorIs
    <2>2. NoMarks(handler[h].draft, renamed) /\ Matching(pool.relays, handler[h].draft)
      BY <1>4, <2>1, MatchingStandIn DEF Stepwise
    <2> QED BY <1>4, <1>m, <2>1, <2>2
  <1>15. CASE SaveReads(h)
    <2>1. /\ handler[h].at = "saving" /\ UNCHANGED <<config, pool, file, temp>>
          /\ Matching(pool.relays, config)
      BY <1>1, <1>5, <1>15, SaveReadsIs
    <2> QED BY <1>1, <1>4, <1>15, <1>e, <1>m, <2>1, SaveReadsIs
  <1>16. CASE Open(h)
    <2>1. /\ handler[h].at = "opening" /\ UNCHANGED <<config, pool, file>> /\ temp' = Torn
          /\ Moves(h, "writing", handler[h].draft, handler[h].built)
      BY <1>1, <1>16, OpenIs
    <2>2. NoMarks(handler[h].draft, renamed) /\ Matching(pool'.relays, config')
      BY <1>4, <2>1 DEF Stepwise
    <2> QED BY <1>4, <1>m, <1>n, <2>1, <2>2, FilesAre
  <1>17. CASE Write(h)
    <2>1. /\ handler[h].at = "writing" /\ UNCHANGED <<config, pool>>
          /\ temp' \in IF handler[h].fd = "temp" THEN Written(temp, handler[h].draft) ELSE {temp}
          /\ file' \in IF handler[h].fd = "file" THEN Written(file, handler[h].draft) ELSE {file}
          /\ Moves(h, "renaming", handler[h].draft, handler[h].built)
      BY <1>1, <1>17, WriteIs
    <2>2. NoMarks(handler[h].draft, renamed) /\ Matching(pool'.relays, config')
      BY <1>4, <2>1 DEF Stepwise
    <2>3. ASSUME NEW f, f = Whole(handler[h].draft) \/ f = Torn PROVE NoMarks(f.holds, renamed)
      BY <1>n, <2>2, <2>3, FilesAre
    <2>4. UniqueIds(handler[h].draft) BY <2>1 DEF WellFormed, NoTwins, Vetted
    <2>5. NoMarks(temp'.holds, renamed) /\ NoMarks(file'.holds, renamed)
      BY <1>3, <1>4, <2>1, <2>3, <2>4, WrittenIs
    <2> QED BY <1>4, <1>m, <2>1, <2>2, <2>5
  <1>18. CASE WriteFails(h)
    <2>1. /\ handler[h].at = "writing" /\ UNCHANGED <<config, pool, file, temp>>
          /\ Leaves(h, "unsaved") /\ Matching(pool.relays, config)
      BY <1>1, <1>5, <1>18, WriteFailsIs
    <2> QED BY <1>4, <1>e, <2>1
  <1>19. CASE Rename(h)
    <2>1. handler[h].at = "renaming" /\ UNCHANGED <<config, pool>> /\ Matching(pool.relays, config)
      BY <1>1, <1>5, <1>19, RenameIs
    <2> QED BY <1>1, <1>4, <1>19, <1>e, <1>n, <2>1, FilesAre, RenameIs
  <1> QED BY <1>6, <1>7, <1>8, <1>9, <1>10, <1>11, <1>12, <1>13, <1>14, <1>15, <1>16, <1>17,
             <1>18, <1>19 DEF Step

LEMMA AgreementNext == WellFormed /\ Saving /\ Agreement /\ [Next]_vars => Agreement'
  <1> SUFFICES ASSUME WellFormed, Saving, Agreement, [Next]_vars PROVE Agreement'
    OBVIOUS
  <1>1. CASE Restart
    <2>1. /\ config' = file.holds /\ UNCHANGED <<file, temp, overlap, renamed>>
          /\ pool'.relays = Built(file.holds)
          /\ handler' = [h \in Handlers |-> Idle]
      BY <1>1 DEF Restart
    <2>2. Matching(pool'.relays, config')
      BY <2>1, BuiltMatches DEF WellFormed, NoTwins
    <2> QED BY <2>1, <2>2, IdleLocals DEF Agreement
  <1>2. ASSUME NEW h \in Handlers, BeginAny(h) PROVE Agreement'
    <2>1. Began(h) /\ Fresh(h, handler'[h]) BY <1>2, BeginAnyIs DEF WellFormed
    <2> SUFFICES ASSUME ~overlap' PROVE Agreement'
      BY DEF Agreement
    <2>2. ~overlap /\ Busy = {} /\ UNCHANGED <<config, pool, file, temp>>
      BY <2>1 DEF Began
    <2>r. renamed' = renamed \cup Renamed(handler'[h].draft) BY <2>1 DEF Began
    <2>3. /\ NoMarks(config, renamed) /\ NoMarks(file.holds, renamed) /\ NoMarks(temp.holds, renamed)
          /\ Matching(pool.relays, config)
      BY <2>2 DEF Agreement
    <2>m. /\ NoMarks(config', renamed') /\ NoMarks(file'.holds, renamed')
          /\ NoMarks(temp'.holds, renamed')
      BY <2>2, <2>3, <2>r DEF NoMarks
    <2>4. \A g \in Handlers \ {h} : handler'[g].at = "idle"
      BY <2>1, <2>2 DEF Began, Others, Busy, At
    <2>5. handler'[h].change.kind = "update" /\ handler'[h].change.secret = "mark" =>
            handler'[h].change.id \in renamed'
      <3> SUFFICES ASSUME handler'[h].change.kind = "update", handler'[h].change.secret = "mark"
                   PROVE  handler'[h].change.id \in renamed'
        OBVIOUS
      <3>1. handler'[h].change.id \in IdsOf(config) BY <2>1, <2>3 DEF Fresh, Matching
      <3>2. PICK r \in config.relays :
              handler'[h].change.secret = r.secret /\ r.id = handler'[h].change.id
        BY <2>1, <3>1, RelayOfIs DEF Fresh
      <3> QED BY <2>3, <2>r, <3>2 DEF NoMarks
    <2>6. Restorable(handler'[h].draft, config, renamed') BY <2>r DEF Restorable, Renamed
    <2>7. GoodChange(h)'
      <3>1. handler'[h].change.kind = "add" => handler'[h].change.secret # "mark"
        BY <2>1 DEF Fresh
      <3> QED BY <2>2, <2>5, <2>6, <3>1 DEF GoodChange
    <2>8. handler'[h].at \notin {"testing", "editing"} => NoMarks(handler'[h].draft, renamed')
      BY <2>1, NoConfigIs DEF Fresh, NoMarks
    <2>9. Stepwise(h)' BY <2>1, <2>2, <2>3, <2>7, <2>8 DEF Stepwise, Fresh, First
    <2> QED BY <2>2, <2>m, <2>4, <2>9 DEF Agreement
  <1>3. ASSUME NEW h \in Handlers, Step(h) PROVE Agreement' BY <1>3, StepKeepsAgreement
  <1>4. CASE UNCHANGED vars
    BY <1>4 DEF vars, ghosts, Agreement, Stepwise, GoodChange, Restorable, Matching, NoMarks,
                StandsFor, IdsOf, Busy, At
  <1> QED BY <1>1, <1>2, <1>3, <1>4 DEF Next

LEMMA AgreementAlways == Spec => []Agreement
  BY WellFormedAlways, SavingAlways, AgreementInit, AgreementNext, PTL DEF Spec

\* The mark shown for a password becomes the password of no relay, through the editor, a
\* relay's form or the file, but of those the editor itself gave another id or another
\* user (restore_secrets_from, config.rs).
THEOREM MarkStoredOnlyIfRenamed == Spec => []PasswordsKept
  <1>1. Agreement => PasswordsKept BY DEF Agreement, NoMarks, PasswordsKept
  <1> QED BY <1>1, AgreementAlways, PTL
=============================================================================
