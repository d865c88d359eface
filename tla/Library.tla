------------------------------- MODULE Library -------------------------------
(* What users make and share: prompts with their history, presets of models, *)
(* skills and notes, and the grants that give others access to them.  Rows,  *)
(* grants, history entries and pins are tables of their own; no key ties     *)
(* them together, and a request writes them one commit after another.        *)
EXTENDS Naturals, Sequences, FiniteSets, SequencesExt, Server

CONSTANTS
    Prompt, Preset, Skill, Note,   \* ids of the four kinds of items
    Version,                       \* ids of history entries
    Text, Command,                 \* contents of a prompt, and the names it is called by
    Member, Admins, Publishers,    \* users; those who may share with everyone
    GrantList,                     \* the lists of grants that forms carry
    LibClient,
    MaxLibCalls,                   \* bound: requests
    MaxLibFails                    \* bound: commits that raise

ASSUME LibraryAssumption ==
    Admins \subseteq Member /\ Publishers \subseteq Member /\ MaxLibCalls \in Nat /\ MaxLibFails \in Nat

VARIABLES lib,       \* the tables
          desk,      \* per client: the commits it has yet to make, what they concern
          libCalls, libFails,
          libKind,   \* the kind of items a behaviour is about (no request touches two)
          apart      \* no two requests about one item crossed each other

libVars == <<lib, desk, libCalls, libFails, libKind, apart>>

LibItem == Prompt \cup Preset \cup Skill \cup Note
NoItem == [in |-> FALSE, owner |-> None, text |-> None, command |-> None, version |-> None, base |-> None, active |-> TRUE, draft |-> FALSE]
\* One id nobody has seen: the ids of entries are made up at random.
FreshVersions ==
    LET unseen == {v \in Version : /\ \A h \in lib.history : h.id # v
                                  /\ \A c \in LibClient : v \notin desk[c].about
                                  /\ \A p \in Prompt : lib.item[p].version # v}
    IN IF unseen = {} THEN {} ELSE {CHOOSE v \in unseen : TRUE}
AtDesk == [prog |-> <<>>, about |-> {}]
ItemsThere(d) == {i \in LibItem : d.item[i].in}
Entries(d, p) == {h \in d.history : h.of = p}
AnyReader == "*"

\* One item of one kind, and somebody who may write it.
LibInit ==
    \E i \in LibItem, u \in Member : \E g \in {{}, {<<u, "write">>}} :
        LET o == CHOOSE x \in Member : TRUE
            v == CHOOSE x \in Version : TRUE
            t == CHOOSE x \in Text : TRUE IN
        /\ lib = [item |-> [x \in LibItem |-> IF x # i THEN NoItem
                              ELSE [NoItem EXCEPT !.in = TRUE, !.owner = o, !.text = t,
                                      !.command = IF i \in Prompt THEN CHOOSE c \in Command : TRUE ELSE None,
                                      !.version = IF i \in Prompt THEN v ELSE None]],
                  history |-> IF i \in Prompt THEN {[id |-> v, of |-> i, parent |-> None, text |-> t]} ELSE {},
                  pins |-> {}, grants |-> [x \in LibItem |-> IF x = i THEN g ELSE {}]]
        /\ desk = [c \in LibClient |-> AtDesk]
        /\ libCalls = 0 /\ libFails = 0 /\ apart = TRUE
        /\ libKind = CHOOSE k \in {Prompt, Preset, Skill, Note} : i \in k

-----------------------------------------------------------------------------
(* Who may do what.                                                         *)
has_access(d, u, i, perm) == \E w \in {u, AnyReader} : <<w, perm>> \in d.grants[i]
MayRead(d, u, i) == u = d.item[i].owner \/ has_access(d, u, i, "read")
MayWriteItem(d, u, i) == u \in Admins \/ u = d.item[i].owner \/ has_access(d, u, i, "write")
\* has_base_model_access: the chain of presets below one, until none is left or one comes again.
has_base_model_access(d, u, m) ==
    LET from[seen \in SUBSET Preset] ==
            [b \in Preset \cup {None} |->
                IF b \in seen \cup {None} THEN TRUE
                ELSE IF ~d.item[b].in THEN u \in Admins
                ELSE MayRead(d, u, b) /\ from[seen \cup {b}][d.item[b].base]]
    IN from[{m}][d.item[m].base]
check_model_access(d, u, m) == u \in Admins \/ (MayRead(d, u, m) /\ has_base_model_access(d, u, m))
\* filter_allowed_access_grants
AllowedGrants(u, g) == IF u \in Admins \cup Publishers THEN g ELSE {x \in g : x[1] # AnyReader}
GrantForms(u) == {AllowedGrants(u, g) : g \in GrantList}

-----------------------------------------------------------------------------
(* Commits: s.x is the item, s.v what is written.                           *)
LibOp(name, x, v) == [do |-> name, x |-> x, v |-> v]
set_access_grants(d, i, g) == [d EXCEPT !.grants[i] = g]
revoke_all_access(d, i) == [d EXCEPT !.grants[i] = {}]
InsertItem(d, i, r) == IF d.item[i].in THEN d ELSE [d EXCEPT !.item[i] = r]
OverwriteItem(d, i, r) == IF ~d.item[i].in THEN d ELSE [d EXCEPT !.item[i] = [r EXCEPT !.owner = d.item[i].owner]]
\* The grants of the form are committed with the row.
update_prompt(d, p, v) ==
    IF ~d.item[p].in THEN d
    ELSE [d EXCEPT !.item[p] = [@ EXCEPT !.text = v.text, !.command = v.command, !.draft = TRUE],
                   !.grants[p] = IF v.grants = None THEN @ ELSE v.grants]
create_history_entry(d, p, v) ==
    [d EXCEPT !.history = @ \cup {[id |-> v.id, of |-> p, parent |-> v.parent, text |-> v.text]}]
delete_history_entry_Children(d, p, v) == [d EXCEPT !.history = {h \in @ : ~(h.id = v /\ h.of = p)}]
delete_history_entry(d, p, v) ==
    LET gone == {h \in Entries(d, p) : h.id = v} IN
    IF gone = {} THEN d
    ELSE LET e == CHOOSE h \in gone : TRUE IN
         [d EXCEPT !.history = {IF h.parent = v THEN [h EXCEPT !.parent = e.parent] ELSE h : h \in @ \ {e}}]
SetVersion(d, p, v) == IF ~d.item[p].in THEN d ELSE [d EXCEPT !.item[p].version = v, !.item[p].draft = FALSE]
update_prompt_version(d, p, v) ==
    IF ~d.item[p].in THEN d ELSE [SetVersion(d, p, v.id) EXCEPT !.item[p].text = v.text]
\* A note goes with its pins.
DeleteItem(d, i) == [d EXCEPT !.item[i] = NoItem, !.pins = {x \in @ : x[2] # i}]
toggle_note_pinned(d, u, n) ==
    IF ~d.item[n].in THEN d
    ELSE [d EXCEPT !.pins = IF <<u, n>> \in @ THEN @ \ {<<u, n>>} ELSE @ \cup {<<u, n>>}]
ToggleItem(d, i) == IF ~d.item[i].in THEN d ELSE [d EXCEPT !.item[i].active = ~@]

LibCommit(d, s) ==
    CASE s.do = "insert" -> InsertItem(d, s.x, s.v)
      [] s.do = "overwrite" -> OverwriteItem(d, s.x, s.v)
      [] s.do = "grants" -> set_access_grants(d, s.x, s.v)
      [] s.do = "put" -> set_access_grants(IF d.item[s.x].in THEN OverwriteItem(d, s.x, s.v.row) ELSE InsertItem(d, s.x, s.v.row), s.x, s.v.grants)
      [] s.do = "revoke" -> revoke_all_access(d, s.x)
      [] s.do = "delete" -> DeleteItem(d, s.x)
      [] s.do = "delete_all" -> [d EXCEPT !.item = [i \in LibItem |-> IF i \in Preset THEN NoItem ELSE @[i]]]
      [] s.do = "update" -> update_prompt(d, s.x, s.v)
      [] s.do = "entry" -> create_history_entry(d, s.x, s.v)
      [] s.do = "version" -> SetVersion(d, s.x, s.v)
      [] s.do = "restore" -> update_prompt_version(d, s.x, s.v)
      [] s.do = "forget" -> delete_history_entry(d, s.x, s.v)
      [] s.do = "forget_all" -> [d EXCEPT !.history = @ \ Entries(d, s.x)]
      [] s.do = "pin" -> toggle_note_pinned(d, s.v, s.x)
      [] s.do = "toggle" -> ToggleItem(d, s.x)
      [] OTHER -> d
\* A commit that finds nothing to change ends the request.
LibEnds(d, s) ==
    \/ s.do = "insert" /\ d.item[s.x].in
    \/ s.do \in {"update", "version", "restore"} /\ ~d.item[s.x].in

-----------------------------------------------------------------------------
(* Requests.                                                                *)
LibFree(c) == libCalls < MaxLibCalls /\ desk[c].prog = <<>> /\ c = CHOOSE x \in LibClient : desk[x].prog = <<>>
LibAsk(c, about, prog) ==
    /\ libCalls' = libCalls + 1
    /\ desk' = [desk EXCEPT ![c] = [prog |-> prog, about |-> about]]
    /\ apart' = (apart /\ \A o \in LibClient : desk[o].about \cap about = {})
    /\ UNCHANGED <<lib, libFails, libKind>>
NewItem(i, u) == [NoItem EXCEPT !.in = TRUE, !.owner = u]

insert_new_prompt(c, u) ==
    \E p \in Prompt, g \in GrantForms(u), t \in Text, n \in Command, v \in FreshVersions :
        /\ ~lib.item[p].in /\ \A q \in Prompt : lib.item[q].in => lib.item[q].command # n
        /\ LibAsk(c, {p, "commands", v},
               <<LibOp("insert", p, [NewItem(p, u) EXCEPT !.text = t, !.command = n, !.draft = TRUE]), LibOp("grants", p, g),
                 LibOp("entry", p, [id |-> v, parent |-> None, text |-> t]), LibOp("version", p, v)>>)
\* The entry the new one follows is read first; the latest of one second may be any.
update_prompt_by_id(c, u) ==
    \E p \in Prompt, g \in GrantForms(u) \cup {None}, t \in Text, n \in Command, v \in FreshVersions, production \in BOOLEAN :
      \E parent \in IF Entries(lib, p) = {} THEN {None} ELSE {h.id : h \in Entries(lib, p)} :
        /\ lib.item[p].in /\ MayWriteItem(lib, u, p)
        /\ \A q \in Prompt \ {p} : lib.item[q].in => lib.item[q].command # n
        /\ LET changed == g # None \/ t # lib.item[p].text \/ n # lib.item[p].command IN
           LibAsk(c, {p, v} \cup (IF n # lib.item[p].command THEN {"commands"} ELSE {}),
               <<LibOp("update", p, [text |-> t, command |-> n, grants |-> g])>>
               \o (IF changed THEN <<LibOp("entry", p, [id |-> v, parent |-> parent, text |-> t])>> ELSE <<>>)
               \o (IF changed /\ production THEN <<LibOp("version", p, v)>> ELSE <<>>))
set_prompt_version(c, u) ==
    \E p \in Prompt, h \in lib.history :
        lib.item[p].in /\ MayWriteItem(lib, u, p) /\ h.of = p /\ LibAsk(c, {p}, <<LibOp("restore", p, h)>>)
delete_prompt_history_entry(c, u) ==
    \E p \in Prompt, h \in lib.history :
        /\ lib.item[p].in /\ MayWriteItem(lib, u, p) /\ h.of = p /\ lib.item[p].version # h.id
        /\ LibAsk(c, {p}, <<LibOp("forget", p, h.id)>>)
delete_prompt_by_id(c, u) ==
    \E p \in Prompt : lib.item[p].in /\ MayWriteItem(lib, u, p)
        /\ LibAsk(c, {p}, <<LibOp("forget_all", p, None), LibOp("revoke", p, None), LibOp("delete", p, None)>>)
toggle_prompt_active(c, u) == \E p \in Prompt : lib.item[p].in /\ MayWriteItem(lib, u, p) /\ LibAsk(c, {p}, <<LibOp("toggle", p, None)>>)

\* Presets, skills and notes: the row, then its grants.
ItemCreated(c, u, kind) ==
    \E i \in kind, g \in GrantForms(u), b \in Preset \cup {None} :
        /\ ~lib.item[i].in /\ (i \notin Preset => b = None) /\ b # i
        /\ (i \in Preset /\ u \notin Admins => b # None)
        /\ LibAsk(c, {i}, <<LibOp("insert", i, [NewItem(i, u) EXCEPT !.base = b]), LibOp("grants", i, g)>>)
create_new_model(c, u) == ItemCreated(c, u, Preset)
create_new_skill(c, u) == ItemCreated(c, u, Skill)
create_new_note(c, u) == ItemCreated(c, u, Note)
update_model_by_id(c, u) ==
    \E m \in Preset, g \in GrantForms(u), b \in Preset \cup {None} :
        /\ lib.item[m].in /\ MayWriteItem(lib, u, m) /\ b # m
        /\ (u \notin Admins /\ lib.item[m].base # None => b # None)
        /\ LibAsk(c, {m}, <<LibOp("overwrite", m, [lib.item[m] EXCEPT !.base = b]), LibOp("grants", m, g)>>)
update_skill_by_id(c, u) ==
    \E k \in Skill, g \in GrantForms(u) : lib.item[k].in /\ MayWriteItem(lib, u, k)
        /\ LibAsk(c, {k}, <<LibOp("overwrite", k, lib.item[k]), LibOp("grants", k, g)>>)
update_note_by_id(c, u) ==
    \E n \in Note, g \in GrantForms(u) : lib.item[n].in /\ MayWriteItem(lib, u, n)
        /\ LibAsk(c, {n}, <<LibOp("put", n, [row |-> lib.item[n], grants |-> g])>>)
\* An administrator may share a model that has no entry yet.
update_model_access_by_id(c, u) ==
    \E m \in Preset, g \in GrantForms(u) :
        \/ lib.item[m].in /\ MayWriteItem(lib, u, m) /\ LibAsk(c, {m}, <<LibOp("grants", m, g)>>)
        \/ ~lib.item[m].in /\ u \in Admins
           /\ LibAsk(c, {m}, <<LibOp("insert", m, NewItem(m, u)), LibOp("grants", m, {}), LibOp("grants", m, g)>>)
update_access_by_id(c, u) ==
    \E i \in Prompt \cup Skill \cup Note, g \in GrantForms(u) :
        lib.item[i].in /\ MayWriteItem(lib, u, i) /\ LibAsk(c, {i}, <<LibOp("grants", i, g)>>)
toggle_by_id(c, u) == \E i \in Preset \cup Skill : lib.item[i].in /\ MayWriteItem(lib, u, i) /\ LibAsk(c, {i}, <<LibOp("toggle", i, None)>>)
\* Entries that are there are written over (with their grants, when the list has some), others are added.
import_models(c, u) ==
    \E m \in Preset, g \in GrantForms(u) \cup {None}, b \in Preset \cup {None} :
        /\ b # m /\ (lib.item[m].in => MayWriteItem(lib, u, m))
        /\ (u \notin Admins /\ (~lib.item[m].in \/ lib.item[m].base # None) => b # None)
        /\ LibAsk(c, {m}, IF lib.item[m].in
                       THEN <<LibOp("overwrite", m, [lib.item[m] EXCEPT !.base = b]),
                              LibOp("grants", m, IF g = None THEN lib.grants[m] ELSE g)>>
                       ELSE <<LibOp("insert", m, [NewItem(m, u) EXCEPT !.base = b]), LibOp("grants", m, IF g = None THEN {} ELSE g)>>)
\* The entries of the list one after the other, then those that are not in it.
sync_models(c, u) ==
    \E S \in SUBSET Preset, b \in Preset \cup {None} :
        LET gone == SetToSeq((ItemsThere(lib) \cap Preset) \ S)
            put == SetToSeq(S) IN
        /\ u \in Admins /\ b \notin S
        /\ LibAsk(c, Preset,
               [k \in 1..Len(put) |-> LibOp("put", put[k], [row |-> [NewItem(put[k], u) EXCEPT !.base = b], grants |-> {<<AnyReader, "read">>}])]
               \o FlattenSeq([k \in 1..Len(gone) |-> <<LibOp("revoke", gone[k], None), LibOp("delete", gone[k], None)>>]))
delete_all_models(c, u) ==
    LET all == SetToSeq(ItemsThere(lib) \cap Preset) IN
    u \in Admins /\ LibAsk(c, Preset, [k \in 1..Len(all) |-> LibOp("revoke", all[k], None)] \o <<LibOp("delete_all", None, None)>>)
ItemRemoved(c, u, kind) ==
    \E i \in kind : lib.item[i].in /\ MayWriteItem(lib, u, i) /\ LibAsk(c, {i}, <<LibOp("revoke", i, None), LibOp("delete", i, None)>>)
delete_model_by_id(c, u) == ItemRemoved(c, u, Preset)
delete_skill_by_id(c, u) == ItemRemoved(c, u, Skill)
delete_note_by_id(c, u) == ItemRemoved(c, u, Note)
pin_note_by_id(c, u) ==
    \E n \in Note : lib.item[n].in /\ (u \in Admins \/ MayRead(lib, u, n)) /\ LibAsk(c, {n}, <<LibOp("pin", n, u)>>)

LibRequest(c, u) ==
    \/ /\ libKind = Prompt
       /\ \/ insert_new_prompt(c, u) \/ update_prompt_by_id(c, u) \/ set_prompt_version(c, u)
          \/ delete_prompt_history_entry(c, u) \/ delete_prompt_by_id(c, u) \/ toggle_prompt_active(c, u)
    \/ /\ libKind = Preset
       /\ \/ create_new_model(c, u) \/ update_model_by_id(c, u) \/ update_model_access_by_id(c, u)
          \/ import_models(c, u) \/ sync_models(c, u) \/ delete_all_models(c, u) \/ delete_model_by_id(c, u)
    \/ libKind = Skill /\ (create_new_skill(c, u) \/ update_skill_by_id(c, u) \/ delete_skill_by_id(c, u))
    \/ /\ libKind = Note
       /\ \/ create_new_note(c, u) \/ update_note_by_id(c, u) \/ delete_note_by_id(c, u) \/ pin_note_by_id(c, u)
    \/ update_access_by_id(c, u) \/ toggle_by_id(c, u)

LibStep(c) ==
    LET s == Head(desk[c].prog) IN
    /\ desk[c].prog # <<>>
    /\ lib' = LibCommit(lib, s)
    /\ desk' = [desk EXCEPT ![c] = IF LibEnds(lib, s) \/ Len(@.prog) = 1 THEN AtDesk ELSE [@ EXCEPT !.prog = Tail(@)]]
    /\ UNCHANGED <<libCalls, libFails, libKind, apart>>
\* The database raises: what was committed stays.
LibFails(c) ==
    /\ desk[c].prog # <<>> /\ libFails < MaxLibFails
    /\ libFails' = libFails + 1
    /\ desk' = [desk EXCEPT ![c] = AtDesk]
    /\ UNCHANGED <<lib, libCalls, libKind, apart>>

LibNext == \E c \in LibClient : LibStep(c) \/ LibFails(c) \/ (LibFree(c) /\ \E u \in Member : LibRequest(c, u))

-----------------------------------------------------------------------------
LibTypeOK ==
    /\ \A i \in LibItem : lib.item[i].owner \in Member \cup {None} /\ lib.grants[i] \subseteq (Member \cup {AnyReader}) \X {"read", "write"}
    /\ libCalls \in 0..MaxLibCalls /\ libFails \in 0..MaxLibFails

\* As long as no two requests about one item cross: whatever fails, no grant
\* and no pin outlives its item, two prompts never answer to one command, and
\* history entries follow one another without a gap or a circle; and when
\* nothing failed and nobody is at it, a prompt is at a version of its own
\* history and, unless a draft was saved over it, shows that version.
Ancestors(d, h) ==
    LET up[k \in 0..Cardinality(Version)] ==
            IF k = 0 THEN {h} ELSE up[k - 1] \cup {e \in d.history : \E x \in up[k - 1] : x.parent = e.id}
    IN up[Cardinality(Version)]
LibrarySound ==
    apart =>
        /\ \A i \in LibItem : lib.grants[i] # {} => lib.item[i].in
        /\ \A x \in lib.pins : lib.item[x[2]].in
        /\ \A p, q \in Prompt : p # q /\ lib.item[p].in /\ lib.item[q].in => lib.item[p].command # lib.item[q].command
        /\ \A h \in lib.history : h.parent = None \/ \E e \in Entries(lib, h.of) \ {h} : e.id = h.parent /\ h \notin Ancestors(lib, e)
        /\ \A p \in Prompt : lib.item[p].in /\ libFails = 0 /\ (\A c \in LibClient : p \notin desk[c].about) =>
              \E h \in Entries(lib, p) : h.id = lib.item[p].version /\ (lib.item[p].draft \/ h.text = lib.item[p].text)

\* Whoever is let through to a preset may read every preset it is built on
\* (references that run in a circle included), and nobody but an administrator
\* uses one whose base is gone.
Bases(d, m) ==
    LET down[k \in 0..Cardinality(Preset)] ==
            IF k = 0 THEN {d.item[m].base} ELSE down[k - 1] \cup {d.item[b].base : b \in down[k - 1] \cap ItemsThere(d)}
    IN down[Cardinality(Preset)] \ {None}
BasesReadable ==
    \A m \in Preset \cap ItemsThere(lib), u \in Member \ Admins :
        check_model_access(lib, u, m) =>
            \A b \in Bases(lib, m) \ {m} : lib.item[b].in /\ MayRead(lib, u, b)
=============================================================================
