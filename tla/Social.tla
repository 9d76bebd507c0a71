-------------------------------- MODULE Social --------------------------------
(***************************************************************************)
(* SocialSystem: parties with their invitations, friendships, guilds and   *)
(* mail, each kept in memory; friendships, guilds and mail are also saved, *)
(* at every change, in a store that may refuse.  Each public operation     *)
(* builds one command, dispatched to one handler, which is one action      *)
(* here.  The four relations share no state.  Names, texts and the events  *)
(* published are left out; a group that is gone has no members.            *)
(***************************************************************************)
EXTENDS Integers, Sequences, FiniteSets, SequencesExt

CONSTANTS SocialPlayers, PartySizeMax, GuildSizeMax,
          MaxGroups,       \* bound: parties, and guilds, ever created
          MaxMails,        \* bound: mails ever sent
          MaxRefusals      \* bound: writes the store refuses

ASSUME SocialAssumption ==
    SocialPlayers \subseteq Nat \ {0} /\ PartySizeMax \in Nat \ {0} /\ GuildSizeMax \in Nat \ {0}

VARIABLES
    soParties,        \* parties_: the n-th is [members, leader]
    soPlayerParty,    \* player_party_: player -> the party he is in, 0 for none
    soInvites,        \* invites_: player -> the parties he is invited to
    soFriends,        \* friends_: player -> his friends
    soStoredFriends,  \* the records "friend:<player>"
    soGuilds,         \* guilds_: the n-th is [members, leader]
    soPlayerGuild,    \* player_guild_
    soStoredGuilds,   \* the records "guild:<id>"
    soUnsaved,        \* guilds whose last write failed (pending_guild_saves_ counts the failures)
    soMails,          \* mails_ and mailbox_: the n-th is [from, to, claimed]
    soStoredMails,    \* the records "mail:<id>", NoMail for none
    soGranted,        \* mail -> times its claim was answered with success
    soRefusals        \* writes refused so far

partyVars == <<soParties, soPlayerParty, soInvites>>
friendVars == <<soFriends, soStoredFriends>>
guildVars == <<soGuilds, soPlayerGuild, soStoredGuilds, soUnsaved>>
mailVars == <<soMails, soStoredMails, soGranted>>
socialVars == <<partyVars, friendVars, guildVars, mailVars, soRefusals>>

Nobody == [members |-> <<>>, leader |-> 0]
NoMail == [from |-> 0, to |-> 0, claimed |-> FALSE]

SocialInit ==
    /\ soParties = <<>> /\ soGuilds = <<>> /\ soStoredGuilds = <<>> /\ soUnsaved = {}
    /\ soMails = <<>> /\ soStoredMails = <<>> /\ soGranted = <<>> /\ soRefusals = 0
    /\ soPlayerParty = [p \in SocialPlayers |-> 0] /\ soPlayerGuild = soPlayerParty
    /\ soFriends = [p \in SocialPlayers |-> {}] /\ soStoredFriends = soFriends
    /\ soInvites = soFriends

In(group, p) == \E i \in DOMAIN group.members : group.members[i] = p
Exists(group) == group.members # <<>>
Founded(p) == [members |-> <<p>>, leader |-> p]
Joined(group, p) == [group EXCEPT !.members = Append(@, p)]
\* Those at the places where p is not.
Staying(members, p) ==
    LET at == CHOOSE at \in SetToSeqs({i \in DOMAIN members : members[i] # p}) :
                  \A i, j \in DOMAIN at : i < j => at[i] < at[j]
    IN [i \in DOMAIN at |-> members[at[i]]]
Without(group, p) == [group EXCEPT !.members = Staying(@, p)]
\* The first of those who stay leads when the leader goes; an empty group is erased.
Left(group, p) ==
    LET rest == Without(group, p)
    IN IF ~Exists(rest) THEN Nobody
       ELSE IF group.leader = p THEN [rest EXCEPT !.leader = Head(rest.members)] ELSE rest

----------------------------------------------------------------------------
(* Parties. *)

HPartyCreate(p) ==
    /\ Len(soParties) < MaxGroups
    /\ soParties' = Append(soParties, Founded(p))
    /\ soPlayerParty' = [soPlayerParty EXCEPT ![p] = Len(soParties) + 1]
    /\ UNCHANGED soInvites

HInvite(from, to, pid) ==
    /\ Exists(soParties[pid]) /\ soParties[pid].leader = from
    /\ Len(soParties[pid].members) < PartySizeMax
    /\ ~In(soParties[pid], to) /\ pid \notin soInvites[to]
    /\ soInvites' = [soInvites EXCEPT ![to] = @ \cup {pid}]
    /\ UNCHANGED <<soParties, soPlayerParty>>

\* The invitation is used up even when the party is gone or full.
HAccept(who, pid) ==
    /\ pid \in soInvites[who]
    /\ soInvites' = [soInvites EXCEPT ![who] = @ \ {pid}]
    /\ \/ /\ Exists(soParties[pid]) /\ Len(soParties[pid].members) < PartySizeMax
          /\ soParties' = [soParties EXCEPT ![pid] = Joined(@, who)]
          /\ soPlayerParty' = [soPlayerParty EXCEPT ![who] = pid]
       \/ /\ ~Exists(soParties[pid]) \/ Len(soParties[pid].members) >= PartySizeMax
          /\ UNCHANGED <<soParties, soPlayerParty>>

HDecline(who, pid) ==
    /\ pid \in soInvites[who]
    /\ soInvites' = [soInvites EXCEPT ![who] = @ \ {pid}]
    /\ UNCHANGED <<soParties, soPlayerParty>>

HLeave(who) ==
    LET pid == soPlayerParty[who]
    IN /\ pid # 0
       /\ soPlayerParty' = [soPlayerParty EXCEPT ![who] = 0]
       /\ soParties' = IF Exists(soParties[pid]) THEN [soParties EXCEPT ![pid] = Left(@, who)] ELSE soParties
       /\ UNCHANGED soInvites

\* The target is any member, the leader himself included; nobody is made leader in his place.
HKick(leader, target, pid) ==
    /\ Exists(soParties[pid]) /\ soParties[pid].leader = leader /\ In(soParties[pid], target)
    /\ LET rest == Without(soParties[pid], target)
       IN soParties' = [soParties EXCEPT ![pid] = IF Exists(rest) THEN rest ELSE Nobody]
    /\ soPlayerParty' = [soPlayerParty EXCEPT ![target] = 0]
    /\ UNCHANGED soInvites

HPromote(leader, target, pid) ==
    /\ Exists(soParties[pid]) /\ soParties[pid].leader = leader
    /\ target # leader /\ In(soParties[pid], target)
    /\ soParties' = [soParties EXCEPT ![pid].leader = target]
    /\ UNCHANGED <<soPlayerParty, soInvites>>

PartiesNext ==
    /\ \E p, q \in SocialPlayers :
          \/ HPartyCreate(p) \/ HLeave(p)
          \/ \E pid \in DOMAIN soParties : HInvite(p, q, pid) \/ HAccept(p, pid) \/ HDecline(p, pid)
                                             \/ HKick(p, q, pid) \/ HPromote(p, q, pid)
    /\ UNCHANGED <<friendVars, guildVars, mailVars, soRefusals>>

----------------------------------------------------------------------------
(* Friendships. *)

\* PersistFriends: a player without an entry in friends_ is not written; a refused write is forgotten.
PersistFriends(players, refused) ==
    LET written == {p \in players : soFriends'[p] # {}} \ refused
    IN /\ soStoredFriends' = [p \in SocialPlayers |-> IF p \in written THEN soFriends'[p]
                                                                       ELSE soStoredFriends[p]]
       /\ soRefusals' = soRefusals + Cardinality(refused) /\ soRefusals' <= MaxRefusals

HAddFriend(p, q, refused) ==
    /\ p # q
    /\ soFriends' = [soFriends EXCEPT ![p] = @ \cup {q}, ![q] = @ \cup {p}]
    /\ PersistFriends({p, q}, refused)

HRemoveFriend(p, q, refused) ==
    /\ soFriends' = [soFriends EXCEPT ![p] = @ \ {q}, ![q] = @ \ {p}]
    /\ PersistFriends({p, q}, refused)

FriendsNext ==
    /\ \E p, q \in SocialPlayers : \E refused \in SUBSET {p, q} :
          HAddFriend(p, q, refused) \/ HRemoveFriend(p, q, refused)
    /\ UNCHANGED <<partyVars, guildVars, mailVars>>

----------------------------------------------------------------------------
(* Guilds. *)

\* PersistGuild, or the Delete of a dissolved guild, whose failure nobody notices.
PersistGuild(gid) ==
    \/ /\ soStoredGuilds' = [i \in DOMAIN soGuilds' |-> IF i = gid THEN soGuilds'[gid] ELSE soStoredGuilds[i]]
       /\ soUnsaved' = soUnsaved \ {gid} /\ UNCHANGED soRefusals
    \/ /\ soRefusals < MaxRefusals /\ soRefusals' = soRefusals + 1
       /\ soStoredGuilds' = [i \in DOMAIN soGuilds' |-> IF i \in DOMAIN soStoredGuilds THEN soStoredGuilds[i]
                                                                                        ELSE Nobody]
       /\ soUnsaved' = soUnsaved \cup {gid}

HGuildCreate(p) ==
    /\ Len(soGuilds) < MaxGroups
    /\ soGuilds' = Append(soGuilds, Founded(p))
    /\ soPlayerGuild' = [soPlayerGuild EXCEPT ![p] = Len(soGuilds')]
    /\ PersistGuild(Len(soGuilds'))

HJoinGuild(p, gid) ==
    /\ Exists(soGuilds[gid]) /\ Len(soGuilds[gid].members) < GuildSizeMax /\ ~In(soGuilds[gid], p)
    /\ soGuilds' = [soGuilds EXCEPT ![gid] = Joined(@, p)]
    /\ soPlayerGuild' = [soPlayerGuild EXCEPT ![p] = gid]
    /\ PersistGuild(gid)

LeaveGuild(p, gid) ==
    /\ In(soGuilds[gid], p)
    /\ soGuilds' = [soGuilds EXCEPT ![gid] = Left(@, p)]
    /\ soPlayerGuild' = [soPlayerGuild EXCEPT ![p] = 0]
    /\ PersistGuild(gid)

GuildsNext ==
    /\ \E p \in SocialPlayers :
          HGuildCreate(p) \/ \E gid \in DOMAIN soGuilds : HJoinGuild(p, gid) \/ LeaveGuild(p, gid)
    /\ UNCHANGED <<partyVars, friendVars, mailVars>>

----------------------------------------------------------------------------
(* Mail. *)

\* PersistMail: best effort, a refused write is forgotten.
PersistMail(mid) ==
    \/ /\ soStoredMails' = [i \in DOMAIN soMails' |-> IF i = mid THEN soMails'[mid] ELSE soStoredMails[i]]
       /\ UNCHANGED soRefusals
    \/ /\ soRefusals < MaxRefusals /\ soRefusals' = soRefusals + 1
       /\ soStoredMails' = [i \in DOMAIN soMails' |-> IF i \in DOMAIN soStoredMails THEN soStoredMails[i]
                                                                                     ELSE NoMail]

HSendMail(from, to) ==
    /\ from # to /\ Len(soMails) < MaxMails
    /\ soMails' = Append(soMails, [from |-> from, to |-> to, claimed |-> FALSE])
    /\ soGranted' = Append(soGranted, 0)
    /\ PersistMail(Len(soMails'))

\* Mutant: the mail is marked and granted whether it was claimed or not.
HClaimMailAgain(who, mid) ==
    /\ soMails[mid].to = who
    /\ soMails' = [soMails EXCEPT ![mid].claimed = TRUE]
    /\ soGranted' = [soGranted EXCEPT ![mid] = @ + 1]
    /\ PersistMail(mid)

HClaimMail(who, mid) ==
    /\ soMails[mid].to = who /\ ~soMails[mid].claimed
    /\ soMails' = [soMails EXCEPT ![mid].claimed = TRUE]
    /\ soGranted' = [soGranted EXCEPT ![mid] = @ + 1]
    /\ PersistMail(mid)

MailsNext ==
    /\ \E p, q \in SocialPlayers : HSendMail(p, q) \/ \E mid \in DOMAIN soMails : HClaimMail(p, mid)
    /\ UNCHANGED <<partyVars, friendVars, guildVars>>

----------------------------------------------------------------------------
\* No group grows past its limit or lists a member twice, and a guild's leader is one of its members.
GroupsAreSound ==
    /\ \A i \in DOMAIN soParties : LET m == soParties[i].members
                                   IN Len(m) <= PartySizeMax /\ Cardinality(ToSet(m)) = Len(m)
    /\ \A i \in DOMAIN soGuilds : LET g == soGuilds[i]
                                  IN /\ Len(g.members) <= GuildSizeMax /\ Cardinality(ToSet(g.members)) = Len(g.members)
                                     /\ Exists(g) => In(g, g.leader)

\* A guild whose last write succeeded is in the store as it is in memory, a dissolved one not at
\* all; friendship is mutual; a mail is granted at most once, and the store never knows of a claim
\* that memory does not.
StoreFollowsMemory ==
    /\ \A i \in DOMAIN soGuilds : i \notin soUnsaved => soStoredGuilds[i] = soGuilds[i]
    /\ \A p, q \in SocialPlayers : p \in soFriends[q] <=> q \in soFriends[p]
    /\ \A i \in DOMAIN soMails : /\ soGranted[i] = IF soMails[i].claimed THEN 1 ELSE 0
                                 /\ soStoredMails[i].claimed => soMails[i].claimed

\* The leader of a party is one of its members ("no dangling leader").
LeaderIsMember == \A i \in DOMAIN soParties : Exists(soParties[i]) => In(soParties[i], soParties[i].leader)

\* Nobody is a member of two parties: player_party_ names the one he is in.
OnePartyEach == \A i \in DOMAIN soParties : \A p \in SocialPlayers : In(soParties[i], p) => soPlayerParty[p] = i

\* With a store that refused nothing, the stored friends of every player are his friends.
StoredFriendsMatch == soRefusals = 0 => soStoredFriends = soFriends
=============================================================================
