---------------------------- MODULE AddressBook -----------------------------
(* contacts.db and groups.db, and the commands that use them: can contacts,  *)
(* can groups, can send, can run's registration of keys and the MCP tools.   *)
(* Commands run at the same time, in separate processes.  A command is the   *)
(* list of SQL statements it has yet to execute: each statement is atomic,   *)
(* and other commands, or the death of the process, come between any two.    *)
EXTENDS Naturals, Sequences, FiniteSets, SequencesExt

CONSTANTS Procs, Names, Groups, Addrs,
          Self,          \* the agent's own address
          Keys,          \* pre-shared keys
          ContactFiles,  \* files given to contacts import: sequences of contacts and
                         \* Bad, an entry with a field missing or a key of another length
          GroupFiles,    \* files given to groups import: sequences of groups and Bad
          None, Bad

Contact == [addr: Addrs, key: Keys]
ContactEntry == [name: Names, addr: Addrs, key: Keys]
Entry == [group: Groups, key: Keys, members: SUBSET Addrs]

ASSUME AddressBookAssumption ==
    /\ Self \in Addrs /\ IsFiniteSet(Addrs) /\ IsFiniteSet(Groups)
    /\ None \notin Keys \cup Contact /\ Bad \notin ContactEntry \cup Entry
    /\ \A f \in ContactFiles : f \in Seq(ContactEntry \cup {Bad})
    /\ \A f \in GroupFiles : f \in Seq(Entry \cup {Bad})

VARIABLES contacts,      \* name -> contact or None
          groups,        \* group -> its key or None
          members,       \* group -> addresses
          proc           \* the running command of each process

bookVars == <<contacts, groups, members, proc>>

\* A statement: what it does, of which contact or group, to which address (or
\* all the members of an imported group), with which key.
Stmt(do, of, addr, key) == [do |-> do, of |-> of, addr |-> addr, key |-> key]
On(do, of) == Stmt(do, of, None, None)

NoKeys == [a \in Addrs |-> None]
\* "keys" are the keys registered in the process, "missed" the addresses whose
\* last registration failed, "calm" that no other command has written meanwhile.
Idle == [op |-> "none", todo |-> <<>>, keys |-> NoKeys, missed |-> {}, key |-> None,
         addr |-> None, input |-> <<>>, calm |-> TRUE]
Done == On("done", None)

BookTypeOK ==
    /\ contacts \in [Names -> Contact \cup {None}]
    /\ groups \in [Groups -> Keys \cup {None}]
    /\ members \in [Groups -> SUBSET Addrs]
    /\ \A p \in Procs : proc[p].keys \in [Addrs -> Keys \cup {None}] /\ proc[p].missed \subseteq Addrs

BookInit ==
    /\ contacts = [n \in Names |-> None]
    /\ groups = [g \in Groups |-> None]
    /\ members = [g \in Groups |-> {}]
    /\ proc = [p \in Procs |-> Idle]

------------------------------------------------------------------------------
(* What each command executes.                                               *)

AddContact(n, a, k, force) == <<Stmt(IF force THEN "put" ELSE "insert", n, a, k)>>
RemoveContact(n) == <<On("delete", n)>>
ImportContacts(entries) ==
    [i \in DOMAIN entries |->
        IF entries[i] = Bad THEN On("bad", None)
        ELSE Stmt("put", entries[i].name, entries[i].addr, entries[i].key)]

CreateGroup(g, k) == <<Stmt("create", g, None, k)>>
AddMember(g, a) == <<On("check", g), Stmt("member", g, a, None)>>
AddMembers(g, addrs) ==
    [i \in 1 .. 2 * Cardinality(addrs) |->
        IF i % 2 = 1 THEN On("check", g) ELSE Stmt("member", g, SetToSeq(addrs)[i \div 2], None)]
RemoveMember(g, a) == <<Stmt("drop_member", g, a, None)>>
RemoveGroup(g) == <<On("drop_members", g), On("drop_group", g)>>
ImportGroups(entries) ==
    [i \in DOMAIN entries |->
        IF entries[i] = Bad THEN On("bad", None)
        ELSE Stmt("replace", entries[i].group, entries[i].members, entries[i].key)]
ExportGroups == <<On("list_groups", None)>>

\* can send reads the contacts' keys, then resolves the name; the MCP tool
\* resolves first.
Resolve(to) == IF to \in Names THEN On("resolve", to) ELSE Stmt("address", None, to, None)
SendTo(to) == <<On("contact_keys", None), Resolve(to), On("send", None)>>
SendGroup(g) == <<On("contact_keys", None), On("group_key", g), On("send_members", g)>>
tool_add_contact(n, a, k) == AddContact(n, a, k, FALSE)
tool_remove_contact(n) == RemoveContact(n)
tool_send_message(to) == <<Resolve(to), On("contact_keys", None), On("send", None)>>

\* can run registers contacts, then every group's members.
Register == <<On("contact_keys", None), On("list_groups", None)>>

Start(p, op, todo, input) ==
    /\ proc[p].op = "none"
    /\ proc' = [proc EXCEPT ![p] = [Idle EXCEPT !.op = op, !.todo = Append(todo, Done),
                                                !.input = input]]
    /\ UNCHANGED <<contacts, groups, members>>

cmd_contacts(p) ==
    \/ \E n \in Names, a \in Addrs \ {Self}, k \in Keys, force \in BOOLEAN :
          Start(p, "edit", AddContact(n, a, k, force), <<>>)
    \/ \E n \in Names : Start(p, "edit", RemoveContact(n), <<>>)
    \/ \E f \in ContactFiles : Start(p, "import_contacts", ImportContacts(f), f)

cmd_groups(p) ==
    \/ \E g \in Groups, k \in Keys : Start(p, "edit", CreateGroup(g, k), <<>>)
    \/ \E g \in Groups, a \in Addrs :
          \/ Start(p, "edit", AddMember(g, a), <<>>)
          \/ Start(p, "edit", RemoveMember(g, a), <<>>)
    \/ \E g \in Groups : Start(p, "edit", RemoveGroup(g), <<>>)
    \/ \E f \in GroupFiles : Start(p, "import_groups", ImportGroups(f), f)
    \/ Start(p, "export", ExportGroups, <<>>)

cmd_send(p) ==
    \/ \E to \in Names \cup Addrs : Start(p, "send", SendTo(to), <<to>>)
    \/ \E g \in Groups : Start(p, "send_group", SendGroup(g), <<>>)

cmd_run(p) == Start(p, "run", Register, <<>>)

\* The MCP server executes one tool call at a time and survives a failing one.
cmd_mcp(p) ==
    \/ \E n \in Names, a \in Addrs \ {Self}, k \in Keys :
          Start(p, "edit", tool_add_contact(n, a, k), <<>>)
    \/ \E n \in Names : Start(p, "edit", tool_remove_contact(n), <<>>)
    \/ \E to \in Names \cup Addrs : Start(p, "send", tool_send_message(to), <<to>>)

------------------------------------------------------------------------------
(* One statement of one process.                                             *)

Head1(p) == Head(proc[p].todo)
At(p, do) == proc[p].todo # <<>> /\ Head1(p).do = do

\* An import goes on with the members of the group it has put.
After(p) ==
    LET imported == IF At(p, "replace") THEN AddMembers(Head1(p).of, Head1(p).addr) ELSE <<>>
    IN [proc[p] EXCEPT !.todo = imported \o Tail(@)]
Read(p, new) == proc' = [proc EXCEPT ![p] = new] /\ UNCHANGED <<contacts, groups, members>>
Fail(p) == Read(p, Idle)
Wrote(p) ==
    proc' = [q \in Procs |-> IF q = p THEN After(p) ELSE [proc[q] EXCEPT !.calm = FALSE]]

\* ContactStore::add and upsert
PutContact(p) ==
    /\ At(p, "put") \/ (At(p, "insert") /\ contacts[Head1(p).of] = None)
    /\ contacts' = [contacts EXCEPT ![Head1(p).of] = [addr |-> Head1(p).addr, key |-> Head1(p).key]]
    /\ Wrote(p) /\ UNCHANGED <<groups, members>>

DeleteContact(p) ==
    /\ At(p, "delete")
    /\ contacts' = [contacts EXCEPT ![Head1(p).of] = None]
    /\ Wrote(p) /\ UNCHANGED <<groups, members>>

\* Faulty variant: an import leaves the row of an existing group alone.
PutGroupOrIgnore(p) ==
    /\ At(p, "replace") \/ (At(p, "create") /\ groups[Head1(p).of] = None)
    /\ groups' = IF groups[Head1(p).of] = None
                 THEN [groups EXCEPT ![Head1(p).of] = Head1(p).key] ELSE groups
    /\ Wrote(p) /\ UNCHANGED <<contacts, members>>

\* GroupStore::create inserts; create_with_psk replaces the row, and the
\* replaced row's members go with it (ON DELETE CASCADE).
PutGroup(p) ==
    /\ At(p, "replace") \/ (At(p, "create") /\ groups[Head1(p).of] = None)
    /\ groups' = [groups EXCEPT ![Head1(p).of] = Head1(p).key]
    /\ members' = [members EXCEPT ![Head1(p).of] = {}]
    /\ Wrote(p) /\ UNCHANGED contacts

\* Faulty variant: foreign keys are not enabled.
PutMemberUnchecked(p) ==
    /\ At(p, "member")
    /\ members' = [members EXCEPT ![Head1(p).of] = @ \cup {Head1(p).addr}]
    /\ Wrote(p) /\ UNCHANGED <<contacts, groups>>

\* The foreign key refuses a member of a group removed since the check.
PutMember(p) ==
    /\ At(p, "member") /\ groups[Head1(p).of] # None
    /\ members' = [members EXCEPT ![Head1(p).of] = @ \cup {Head1(p).addr}]
    /\ Wrote(p) /\ UNCHANGED <<contacts, groups>>

DropMembers(p) ==
    /\ At(p, "drop_member") \/ At(p, "drop_members")
    /\ members' = [members EXCEPT ![Head1(p).of] =
                      IF At(p, "drop_member") THEN @ \ {Head1(p).addr} ELSE {}]
    /\ Wrote(p) /\ UNCHANGED <<contacts, groups>>

DropGroup(p) ==
    /\ At(p, "drop_group")
    /\ groups' = [groups EXCEPT ![Head1(p).of] = None]
    /\ members' = [members EXCEPT ![Head1(p).of] = {}]
    /\ Wrote(p) /\ UNCHANGED contacts

CheckGroup(p) == At(p, "check") /\ groups[Head1(p).of] # None /\ Read(p, After(p))

\* A conflict, a missing group or contact, a group of nobody or a malformed
\* entry ends the command; what it has written stays.
Refused(p) ==
    /\ \/ At(p, "insert") /\ contacts[Head1(p).of] # None
       \/ At(p, "create") /\ groups[Head1(p).of] # None
       \/ (At(p, "check") \/ At(p, "member") \/ At(p, "group_key")) /\ groups[Head1(p).of] = None
       \/ At(p, "send_members") /\ members[Head1(p).of] = {}
       \/ At(p, "resolve") /\ contacts[Head1(p).of] = None
       \/ At(p, "bad")
    /\ Fail(p)

\* add_psk_contact for every contact in the order of their names: among
\* contacts with one address any may come last.  An error is passed over: the
\* addresses in "failed" have no contact that could be registered.
ReadContactKeys(p) ==
    LET held(a) == {contacts[n].key : n \in {m \in Names : contacts[m] # None
                                                       /\ contacts[m].addr = a}}
        listed == {a \in Addrs : held(a) # {}}
    IN /\ At(p, "contact_keys")
       /\ \E failed \in SUBSET listed, pick \in [Addrs -> Keys \cup {None}] :
             /\ \A a \in Addrs : IF a \in listed \ failed THEN pick[a] \in held(a)
                                 ELSE pick[a] = proc[p].keys[a]
             /\ Read(p, [After(p) EXCEPT !.keys = pick, !.missed = (@ \ listed) \cup failed])

ResolveName(p) ==
    \/ /\ At(p, "resolve") /\ contacts[Head1(p).of] # None
       /\ Read(p, [After(p) EXCEPT !.addr = contacts[Head1(p).of].addr])
    \/ At(p, "address") /\ Read(p, [After(p) EXCEPT !.addr = Head1(p).addr])

ReadGroupKey(p) ==
    /\ At(p, "group_key") /\ groups[Head1(p).of] # None
    /\ Read(p, [After(p) EXCEPT !.key = groups[Head1(p).of]])

\* The key for these addresses, but for those whose registration fails.
Registered(p, addrs, key, failed) ==
    [After(p) EXCEPT !.keys = [a \in Addrs |-> IF a \in addrs \ failed THEN key ELSE @[a]],
                     !.missed = (@ \ addrs) \cup failed]

Messages(g, to) == [i \in 1 .. Cardinality(to) |-> Stmt("message", g, SetToSeq(to)[i], None)]

\* Faulty variant: a member who is a contact keeps the contact's key.
KeepContactKeys(p) ==
    LET g == Head1(p).of
        to == members[g] \ {Self}
        new == {a \in to : proc[p].keys[a] = None}
    IN /\ At(p, "send_members") /\ members[g] # {}
       /\ Read(p, [Registered(p, new, proc[p].key, {}) EXCEPT !.todo = Messages(g, to) \o @])

\* can send --group: the group's key for every member but oneself, errors passed
\* over, then one message to each of them.
ReadSendMembers(p) ==
    LET g == Head1(p).of
        to == members[g] \ {Self}
    IN /\ At(p, "send_members") /\ members[g] # {}
       /\ \E failed \in SUBSET to :
             Read(p, [Registered(p, to, proc[p].key, failed) EXCEPT !.todo = Messages(g, to) \o @])

\* A message leaves (or fails, and the rest of the group is still served).
Send(p) ==
    \/ At(p, "send") /\ Read(p, After(p))
    \/ At(p, "message") /\ Read(p, [After(p) EXCEPT !.addr = Head1(p).addr])

\* can run and groups export list the groups, then read each one's members.
ListGroups(p) ==
    /\ At(p, "list_groups")
    /\ LET present == SetToSeq({g \in Groups : groups[g] # None})
           each == [i \in DOMAIN present |->
                      Stmt("read_members", present[i], None, groups[present[i]])]
       IN Read(p, [After(p) EXCEPT !.todo = each \o @])

ReadMembers(p) ==
    LET g == Head1(p).of IN
    /\ At(p, "read_members")
    /\ IF proc[p].op = "run"
       THEN \E failed \in SUBSET (members[g] \ {Self}) :
               Read(p, Registered(p, members[g] \ {Self}, Head1(p).key, failed))
       ELSE Read(p, [After(p) EXCEPT !.input = Append(@,
                        [group |-> g, key |-> Head1(p).key, members |-> members[g]])])

Finish(p) == At(p, "done") /\ Read(p, Idle)

\* The process is killed; SQLite keeps the statements already executed.
ProcessDies(p) == proc[p].op # "none" /\ Fail(p)

Execute(p) ==
    \/ PutContact(p) \/ DeleteContact(p) \/ PutGroup(p) \/ PutMember(p) \/ DropMembers(p)
    \/ DropGroup(p) \/ CheckGroup(p) \/ Refused(p) \/ ReadContactKeys(p) \/ ResolveName(p)
    \/ ReadGroupKey(p) \/ ReadSendMembers(p) \/ Send(p) \/ ListGroups(p) \/ ReadMembers(p)
    \/ Finish(p)

BookNext ==
    \E p \in Procs :
        \/ cmd_contacts(p) \/ cmd_groups(p) \/ cmd_send(p) \/ cmd_run(p) \/ cmd_mcp(p)
        \/ Execute(p) \/ ProcessDies(p)

BookSpec == BookInit /\ [][BookNext]_bookVars

------------------------------------------------------------------------------
\* No member belongs to a group that is gone: add_member looks for the group
\* in one statement and inserts in another, and a removal may come between.
MembersHaveGroup == BookTypeOK /\ \A g \in Groups : members[g] # {} => groups[g] # None

Finished(p, op) == At(p, "done") /\ proc[p].op = op /\ proc[p].calm

\* The entries of a file that no later one replaces.
LastOf(file, name(_)) ==
    {file[i] : i \in {j \in DOMAIN file : \A l \in j + 1 .. Len(file) : name(file[l]) # name(file[j])}}

\* An export of the groups that no other command disturbed wrote exactly the
\* groups there are, and an import of groups or of contacts that ran to its end
\* undisturbed left exactly what the file says of every group and contact in it,
\* whatever earlier imports that died half-way left behind.
BackupFaithful ==
    \A p \in Procs :
        /\ Finished(p, "export") =>
              ToSet(proc[p].input) = {[group |-> g, key |-> groups[g], members |-> members[g]] :
                                         g \in {h \in Groups : groups[h] # None}}
        /\ Finished(p, "import_groups") =>
              \A e \in LastOf(proc[p].input, LAMBDA x : x.group) :
                  groups[e.group] = e.key /\ members[e.group] = e.members
        /\ Finished(p, "import_contacts") =>
              \A e \in LastOf(proc[p].input, LAMBDA x : x.name) :
                  contacts[e.name] = [addr |-> e.addr, key |-> e.key]

\* A message to a group never goes to the agent itself; unless the member's
\* registration failed it goes out under the key the command has read, even to a
\* member who is also a contact, and that is the group's key when nobody wrote
\* meanwhile.  In a send nobody disturbed a message to a contact goes to its
\* address, under a key held for that address unless that could not be
\* registered; and `can run`, undisturbed, has for every member a key of a group
\* it is in, or failed to register one.
SentUnderRightKey ==
    \A p \in Procs :
        /\ At(p, "message") =>
              LET to == Head1(p).addr IN
              /\ to # Self
              /\ to \notin proc[p].missed =>
                    /\ proc[p].keys[to] = proc[p].key
                    /\ proc[p].calm => proc[p].key = groups[Head1(p).of]
        /\ At(p, "send") /\ proc[p].calm /\ proc[p].input[1] \in Names =>
              LET c == contacts[proc[p].input[1]]
              IN /\ proc[p].addr = c.addr
                 /\ c.addr \notin proc[p].missed =>
                       \E n \in Names : contacts[n] = [addr |-> c.addr, key |-> proc[p].keys[c.addr]]
        /\ Finished(p, "run") =>
              \A g \in Groups : \A a \in members[g] \ ({Self} \cup proc[p].missed) :
                  \E h \in Groups : a \in members[h] /\ proc[p].keys[a] = groups[h]
=============================================================================
