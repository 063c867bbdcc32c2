------------------------------ MODULE Profiles ------------------------------
(***************************************************************************)
(* The profiles of a device, the host, as a peer, the client, knows them:  *)
(* from the replies to the inquiry each new connection sends, and from the *)
(* reports the host's application sends after a change.  The host has two  *)
(* threads.  The application's changes the list under the list's own       *)
(* mutex; the input thread answers inquiries under the device's mutex and  *)
(* looks a list up several times for one answer.                           *)
(*                                                                         *)
(* The tooling mirrors both lists.  Of its mirrors only ids and addresses  *)
(* are kept here: the check boxes of both panels overwrite the enabled     *)
(* flag they show, and nothing else.                                       *)
(*                                                                         *)
(* One group; numbers of channels are left out.  updateProfileTarget has   *)
(* no caller.  The wire keeps the order of messages.                       *)
(***************************************************************************)
EXTENDS Integers, Sequences, SequencesExt, FiniteSets, Lists

CONSTANTS
    Ids, Addresses,  \* profile ids; addresses are integers
    Initial,         \* the host's list at start: [id, address, enabled]
    Gone,            \* the empty id of a MidiCIProfile that was moved from
    MaxChanges, MaxConnections  \* bounds

ProfileKeys == Ids \X Addresses
Entries == [id : Ids, address : Addresses, enabled : BOOLEAN]

Key(e) == <<e.id, e.address>>
KeysOf(list) == [i \in 1 .. Len(list) |-> Key(list[i])]

ASSUME ProfilesAssumption ==
    /\ Addresses \subseteq Nat /\ Gone \notin Ids
    /\ Initial \in Seq(Entries)
    /\ \A i, j \in 1 .. Len(Initial) : KeysOf(Initial)[i] = KeysOf(Initial)[j] => i = j
    /\ {MaxChanges, MaxConnections} \subseteq Nat

VARIABLES
    host,     \* profiles_ of ProfileHostFacade
    local,    \* local_profile_states_ of CIDeviceModel: keys
    due,      \* the report the application owes for its last change
    changes,  \* number of changes, bounded
    inquiries,\* inquiries on their way to the host
    answer,   \* the answer the input thread is working at
    torn,     \* history: keys the answer begun last has missed
    wire,     \* replies and reports on their way to the client
    conn,     \* number of connections the client has made
    client,   \* profiles_ of the connection's ProfileClientFacade
    shown     \* profiles_ of ClientConnectionModel: keys

application == <<host, local, due, changes, torn>>
peer == <<conn, client, shown>>
vars == <<application, inquiries, answer, wire, peer>>

Nothing == <<>>

Init ==
    /\ host = Initial
    /\ local = KeysOf(Initial)
    /\ due = Nothing
    /\ changes = 0
    /\ inquiries = 0
    /\ answer = Nothing
    /\ torn = {}
    /\ wire = <<>>
    /\ conn = 0
    /\ client = <<>>
    /\ shown = <<>>

-----------------------------------------------------------------------------
\* ObservableProfileList

Has(list, k) == \E i \in 1 .. Len(list) : Key(list[i]) = k

\* The place i has the first entry of k.
IsFirst(list, k, i) ==
    /\ i \in 1 .. Len(list) /\ Key(list[i]) = k
    /\ \A j \in 1 .. Len(list) : Key(list[j]) = k => i <= j

\* Mutant: entries that are there already are added again.
AddedAgain(list, entries) == list \o entries

\* add, for one entry after the other
Added(list, entries) ==
    list \o Picked(entries, {i \in 1 .. Len(entries) :
                /\ ~Has(list, Key(entries[i]))
                /\ IsFirst(entries, Key(entries[i]), i)})

\* remove
Without(list, k) == Picked(list, {i \in 1 .. Len(list) : Key(list[i]) # k})

\* What remove shows its callbacks as the removed entry of k, and leaves
\* behind the others until they return: the last place of the list after
\* std::remove_if.  Its entry was moved from unless it is the removed one.
Leftover(list, k) ==
    IF Key(Last(list)) = k THEN k ELSE <<Gone, Last(list).address>>

\* setEnabled
Toggled(list, k, on) ==
    [i \in 1 .. Len(list) |->
        IF Key(list[i]) = k THEN [list[i] EXCEPT !.enabled = on] ELSE list[i]]

\* getMatchingProfiles
Matching(address, on) ==
    Picked(host, {i \in 1 .. Len(host) :
                    host[i].address = address /\ host[i].enabled = on})

-----------------------------------------------------------------------------
\* The host's application.

Entry(k, on) == [id |-> k[1], address |-> k[2], enabled |-> on]

Report(kind, k) == <<[kind |-> kind, entries |-> <<Entry(k, kind = "enabled")>>]>>

\* One change at a time, reported before the next.
Changes ==
    /\ due = Nothing
    /\ changes < MaxChanges
    /\ changes' = changes + 1
    /\ UNCHANGED <<inquiries, answer, wire, peer>>

\* addProfile, with the callback of CIDeviceModel.
AddProfile(k) ==
    /\ Changes
    /\ ~Has(host, k)
    /\ host' = Added(host, <<Entry(k, FALSE)>>)
    /\ local' = Append(local, k)
    /\ due' = Report("added", k)
    /\ UNCHANGED torn

\* Mutant: all targets of the profile are taken away.
LocalWithoutId(k) == Picked(local, {i \in 1 .. Len(local) : local[i][1] # k[1]})

LocalWithout(k) == Picked(local, {i \in 1 .. Len(local) : local[i] # k})

\* removeProfile: CIDeviceModel removes what the callback names.
RemoveProfile(k) ==
    /\ Changes
    /\ Has(host, k)
    /\ host' = Without(host, k)
    /\ local' = LocalWithout(Leftover(host, k))
    /\ due' = Report("removed", k)
    /\ UNCHANGED torn

\* The address an answer is about to look up: the smallest of those left.
Lowest(todo) == CHOOSE a \in todo : \A b \in todo : a <= b

\* The answer at work has looked up the enabled profiles of k's address, and
\* not yet the disabled ones.
BetweenLookups(k) ==
    answer # Nothing /\ answer[1].found # Nothing /\ Lowest(answer[1].todo) = k[2]

\* enableProfile, disableProfile
SetEnabled(k, on) ==
    /\ Changes
    /\ Has(host, k)
    /\ host' = Toggled(host, k, on)
    /\ due' = Report(IF on THEN "enabled" ELSE "disabled", k)
    /\ torn' = IF on /\ BetweenLookups(k) THEN torn \cup {k} ELSE torn
    /\ UNCHANGED local

\* Mutant: getMuid and send do without the device's mutex.
DeviceNotNeeded == TRUE

\* The input thread holds the device's mutex while it handles a message, and
\* getMuid and send take it.
DeviceFree == answer = Nothing

\* sendProfileAddedReport and the others.
SendReport ==
    /\ due # Nothing
    /\ DeviceFree
    /\ wire' = wire \o due
    /\ due' = Nothing
    /\ UNCHANGED <<host, local, changes, torn, inquiries, answer, peer>>

-----------------------------------------------------------------------------
\* The host's input thread: processProfileInquiry for all addresses.

BeginAnswer ==
    /\ inquiries > 0
    /\ answer = Nothing
    /\ inquiries' = inquiries - 1
    /\ answer' = <<[todo |-> {host[i].address : i \in 1 .. Len(host)},
                    found |-> Nothing, replies |-> <<>>]>>
    /\ torn' = {}
    /\ UNCHANGED <<host, local, due, changes, wire, peer>>

LookUpEnabled ==
    LET a == answer[1] IN
    /\ answer # Nothing /\ a.todo # {} /\ a.found = Nothing
    /\ answer' = <<[todo |-> a.todo, found |-> <<Matching(Lowest(a.todo), TRUE)>>,
                    replies |-> a.replies]>>
    /\ UNCHANGED <<application, inquiries, wire, peer>>

LookUpDisabled ==
    LET a == answer[1]
        reply == [kind |-> "reply",
                  entries |-> a.found[1] \o Matching(Lowest(a.todo), FALSE)] IN
    /\ answer # Nothing /\ a.found # Nothing
    /\ answer' = <<[todo |-> a.todo \ {Lowest(a.todo)}, found |-> Nothing,
                    replies |-> Append(a.replies, reply)]>>
    /\ UNCHANGED <<application, inquiries, wire, peer>>

SendReplies ==
    /\ answer # Nothing /\ answer[1].todo = {}
    /\ wire' = wire \o answer[1].replies
    /\ answer' = Nothing
    /\ UNCHANGED <<application, inquiries, peer>>

-----------------------------------------------------------------------------
\* The client.

\* A DiscoveryReply of the host makes a new connection, which inquires.
Connect ==
    /\ conn < MaxConnections
    /\ conn' = conn + 1
    /\ client' = <<>>
    /\ shown' = <<>>
    /\ inquiries' = inquiries + 1
    /\ UNCHANGED <<application, answer, wire>>

\* Mutant: the callback is called before the entry is in the list.
ShownBefore(new) == IF new # client THEN KeysOf(Front(new)) ELSE shown

\* Every callback copies the list as it is then.
ShownAfter(new) == IF new # client THEN KeysOf(new) ELSE shown

TakeReply(m) ==
    /\ m.kind \in {"reply", "added"}
    /\ client' = Added(client, m.entries)
    /\ shown' = ShownAfter(client')

TakeRemoved(m) ==
    LET k == Key(m.entries[1]) IN
    /\ m.kind = "removed" /\ Has(client, k)
    /\ client' = Without(client, k)
    /\ shown' = Append(KeysOf(client'), Leftover(client, k))

TakeToggled(m) ==
    LET k == Key(m.entries[1]) IN
    /\ m.kind \in {"enabled", "disabled"} /\ Has(client, k)
    /\ client' = Toggled(client, k, m.kind = "enabled")
    /\ shown' = KeysOf(client')

\* processProfileReply and the reports, by onClient.
Receive ==
    LET m == Head(wire) IN
    /\ wire # <<>>
    /\ wire' = Tail(wire)
    /\ \/ conn > 0 /\ (TakeReply(m) \/ TakeRemoved(m) \/ TakeToggled(m))
       \/ /\ \/ conn = 0
             \/ m.kind \in {"removed", "enabled", "disabled"}
                /\ ~Has(client, Key(m.entries[1]))
          /\ UNCHANGED <<client, shown>>
    /\ UNCHANGED <<application, inquiries, answer, conn>>

Next ==
    \/ \E k \in ProfileKeys :
        AddProfile(k) \/ RemoveProfile(k) \/ \E on \in BOOLEAN : SetEnabled(k, on)
    \/ SendReport
    \/ BeginAnswer \/ LookUpEnabled \/ LookUpDisabled \/ SendReplies
    \/ Connect \/ Receive

Spec == Init /\ [][Next]_vars

-----------------------------------------------------------------------------
Messages ==
    [kind : {"reply", "added", "removed", "enabled", "disabled"}, entries : Seq(Entries)]

ShownKeys == (Ids \cup {Gone}) \X Addresses

NoneTwice(list) == \A i, j \in 1 .. Len(list) : Key(list[i]) = Key(list[j]) => i = j

\* Every variable keeps its type; neither list has a profile twice at an
\* address.
TypeOK ==
    /\ host \in Seq(Entries) /\ NoneTwice(host)
    /\ client \in Seq(Entries) /\ NoneTwice(client)
    /\ local \in Seq(ProfileKeys) /\ shown \in Seq(ShownKeys)
    /\ due = Nothing \/ due[1] \in Messages
    /\ wire \in Seq(Messages)
    /\ changes \in 0 .. MaxChanges
    /\ conn \in 0 .. MaxConnections /\ inquiries \in 0 .. MaxConnections
    /\ torn \subseteq ProfileKeys
    /\ answer # Nothing =>
        /\ answer[1].todo \subseteq Addresses
        /\ answer[1].found # Nothing => answer[1].found[1] \in Seq(Entries)
        /\ answer[1].replies \in Seq(Messages)

Settled ==
    conn > 0 /\ inquiries = 0 /\ answer = Nothing /\ due = Nothing /\ wire = <<>>

Known(list) == {list[i] : i \in {j \in 1 .. Len(list) : Key(list[j]) \notin torn}}

\* When every inquiry is answered and every change reported and received, the
\* client knows the host's profiles as they are, enabled or not: whichever of
\* reply and report came first, and if it connected halfway.  Excepted are
\* profiles enabled between the two look-ups of an answer, which are in
\* neither, and whose report finds nothing to enable.
Agreement == Settled => Known(client) = Known(host)

\* A connection's panel shows its profiles, in order.  Behind them stands at
\* most one more, the leftover of a removal.
ShownFollows ==
    \/ shown = KeysOf(client)
    \/ \E k \in ShownKeys : shown = Append(KeysOf(client), k)

\* Whatever was removed, the local panel has a line for each profile of the
\* host; it may have more.
LocalCovers == \A i \in 1 .. Len(host) : \E j \in 1 .. Len(local) : local[j] = Key(host[i])

\* The tooling's two lists, kept up by callbacks which come between the two
\* halves of a removal, miss no profile of the lists they mirror.
MirrorsFollow == ShownFollows /\ LocalCovers
=============================================================================
