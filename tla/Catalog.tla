-------------------------------- MODULE Catalog --------------------------------
(***************************************************************************)
(* Channels, their memory, their content ideas and the research reports     *)
(* written about both.  With a database a handler first loads what it needs  *)
(* (_get_channel or _require_idea, which also check the tenant), then        *)
(* commits once; handlers of several processes interleave between the two,   *)
(* and the foreign keys are checked by the commit.  Without a database the   *)
(* rows live in the process, no handler suspends, and nothing checks them.   *)
(*                                                                         *)
(* Refused calls (401, 403, 404, 422) change nothing and have no action.     *)
(* The loading reads are one step: the columns they compare, a row's channel *)
(* and a channel's tenant, never change.  A channel cannot be created in the *)
(* database: slug is NOT NULL and nothing sets it; the rows are there first. *)
(***************************************************************************)
EXTENDS Naturals, FiniteSets

CONSTANTS
  DevMode,     \* no API keys are configured: the tenant is not checked
  Tenants,     \* organisation and workspace of a caller
  Channels, Ideas,
  Statuses,    \* ALLOWED_IDEA_STATUSES
  Operations,  \* the operations callers ask for
  MaxRequests, \* bound: requests begun
  MaxOpen      \* bound: requests in progress at the same time

ChannelOps == {"patchChannel", "deleteChannel", "getMemory", "patchMemory", "createIdea",
               "listIdeas", "niche", "latestNiche", "listNiche"}
IdeaOps == {"getIdea", "patchIdea", "setStatus", "deleteIdea", "research", "latestResearch",
            "listResearch"}

ASSUME CatalogModes ==
  /\ DevMode \in BOOLEAN
  /\ MaxRequests \in Nat
  /\ "unknown" \notin Statuses
  /\ Operations \subseteq ChannelOps \cup IdeaOps \cup {"createChannel", "listChannels"}

VARIABLES
  database,  \* whether DATABASE_URL is set
  now,       \* requests begun: the time now() returns to each
  channels,  \* rows of channels
  ideas,     \* rows of video_ideas
  memories,  \* rows of channel_memories
  reports,   \* rows of the two report tables
  calls,     \* rows of llm_calls
  served,    \* <<tenant, owner>>: who was answered rows of whose channel
  alone,     \* the last PATCH of each memory, 0 once two have overlapped
  open       \* requests in progress and what they loaded

rows == <<channels, ideas, memories, reports, calls>>
vars == <<database, now, rows, served, alone, open>>

-----------------------------------------------------------------------------
(* Types *)

Times == 1..MaxRequests
MaybeTime == 0..MaxRequests
States == {"absent", "live", "gone"}

\* by: the tenant that wrote the row last, in place of what it wrote.
ChannelRows == [state : States, owner : Tenants, by : Tenants]
IdeaRows == [state : States, channel : Channels, status : Statuses, by : Tenants]
\* value: the PATCH whose memory the row holds.
MemoryRows == [channel : Channels, at : Times, value : Times, by : Tenants]
\* idea: the idea the report is about, none for a niche report.
ReportRows == [channel : Channels, idea : SUBSET Ideas, at : Times, by : Tenants]

\* row: the memory row the request loaded, 0 for none; solo: no other PATCH of the
\* same memory has been in progress with it.
Calls == [op : Operations, tenant : Tenants, channel : Channels, idea : Ideas,
          status : Statuses \cup {"unknown"}, at : Times, row : MaybeTime, solo : BOOLEAN]

TypeOK ==
  /\ database \in BOOLEAN
  /\ now \in MaybeTime
  /\ channels \in [Channels -> ChannelRows]
  /\ ideas \in [Ideas -> IdeaRows]
  /\ memories \subseteq MemoryRows
  /\ reports \subseteq ReportRows
  /\ calls \subseteq [channel : Channels, at : Times]
  /\ served \subseteq Tenants \X Tenants
  /\ alone \in [Channels -> MaybeTime]
  /\ open \subseteq Calls

\* Ids are drawn at random: what an absent row holds is what it will be created with.
Init ==
  /\ database \in BOOLEAN
  /\ now = 0
  /\ \E owner \in [Channels -> Tenants] :
       channels = [c \in Channels |-> [state |-> IF database THEN "live" ELSE "absent",
                                       owner |-> owner[c], by |-> owner[c]]]
  /\ \E of \in [Ideas -> Channels], s \in Statuses :
       ideas = [i \in Ideas |-> [state |-> "absent", channel |-> of[i], status |-> s,
                                 by |-> channels[of[i]].owner]]
  /\ memories = {} /\ reports = {} /\ calls = {} /\ served = {} /\ open = {}
  /\ alone = [c \in Channels |-> 0]

-----------------------------------------------------------------------------
(* Loading *)

\* _get_channel: 404 without the row, 403 for another tenant's.
MayUse(t, c) == channels[c].state = "live" /\ (DevMode \/ channels[c].owner = t)

\* _require_idea: the idea and its channel.
MayUseIdea(t, i) == ideas[i].state = "live" /\ MayUse(t, ideas[i].channel)

\* The newest memory of a channel is the one served and the one a PATCH updates.
MemoriesOf(c) == {m \in memories : m.channel = c}
Newest(c) == {m \in MemoriesOf(c) : \A n \in MemoriesOf(c) : n.at <= m.at}

\* Mutation: the oldest row is updated.
LoadedRowOldest(c) ==
  IF MemoriesOf(c) = {} THEN 0
  ELSE (CHOOSE m \in MemoriesOf(c) : \A n \in MemoriesOf(c) : n.at >= m.at).at

LoadedRow(c) == IF MemoriesOf(c) = {} THEN 0 ELSE (CHOOSE m \in Newest(c) : TRUE).at

\* The payload is checked too: a channel_id that is the path's, a known status.
StatusOps == {"createIdea", "patchIdea", "setStatus"}

\* Mutation: the status of a payload is not checked.
AcceptedStatusAny(op, s) == TRUE

AcceptedStatus(op, s) == op \in StatusOps => s \in Statuses

Accepted(op, t, c, i, s) ==
  /\ AcceptedStatus(op, s)
  /\ \/ op \in IdeaOps /\ MayUseIdea(t, i) /\ c = ideas[i].channel
     \/ op \in ChannelOps \ {"createIdea"} /\ MayUse(t, c)
     \/ op = "createIdea" /\ MayUse(t, c) /\ ideas[i].state = "absent" /\ ideas[i].channel = c
     \/ op = "createChannel" /\ ~database /\ channels[c].state = "absent"
          /\ (DevMode \/ channels[c].owner = t)
     \/ op = "listChannels"

Load(op, t, c, i, s, solo) ==
  [op |-> op, tenant |-> t, channel |-> c, idea |-> i,
   status |-> IF op \in StatusOps THEN s ELSE "unknown", at |-> now + 1,
   row |-> IF op = "patchMemory" THEN LoadedRow(c) ELSE 0, solo |-> solo]

-----------------------------------------------------------------------------
(* What the handlers write, given what they loaded *)

CreateChannel(x) ==
  /\ channels' = [channels EXCEPT ![x.channel].state = "live", ![x.channel].by = x.tenant]
  /\ UNCHANGED <<ideas, memories, reports, calls, served, alone>>

\* Mutation: the organisation and workspace can be patched.
PatchChannelMoves(x) ==
  /\ \E t \in Tenants :
       channels' = [channels EXCEPT ![x.channel].by = x.tenant, ![x.channel].owner = t]
  /\ UNCHANGED <<ideas, memories, reports, calls, served, alone>>

PatchChannel(x) ==
  /\ channels' = [channels EXCEPT ![x.channel].by = x.tenant]
  /\ UNCHANGED <<ideas, memories, reports, calls, served, alone>>

\* In the process only the channel is dropped; what refers to it stays.
DeleteChannel(x) ==
  /\ channels' = [channels EXCEPT ![x.channel].state = "gone"]
  /\ UNCHANGED <<ideas, memories, reports, calls, served, alone>>

\* The row loaded is updated, the first one inserted; created_at never changes.
PatchMemory(x) ==
  /\ memories' =
       IF x.row = 0
         THEN memories \cup {[channel |-> x.channel, at |-> x.at, value |-> x.at,
                              by |-> x.tenant]}
         ELSE {IF m.channel = x.channel /\ m.at = x.row
                 THEN [m EXCEPT !.value = x.at, !.by = x.tenant] ELSE m : m \in memories}
  /\ alone' = [alone EXCEPT ![x.channel] = IF x.solo THEN x.at ELSE 0]
  /\ UNCHANGED <<channels, ideas, reports, calls, served>>

CreateIdea(x) ==
  /\ ideas' = [ideas EXCEPT ![x.idea] = [@ EXCEPT !.state = "live", !.status = x.status,
                                                  !.by = x.tenant]]
  /\ UNCHANGED <<channels, memories, reports, calls, served, alone>>

\* MUTABLE_FIELDS: never the channel.
PatchIdea(x) ==
  /\ ideas' = [ideas EXCEPT ![x.idea] = [@ EXCEPT !.status = x.status, !.by = x.tenant]]
  /\ UNCHANGED <<channels, memories, reports, calls, served, alone>>

\* Only the status, known already.
SetStatus(x) == PatchIdea(x)

DeleteIdea(x) ==
  /\ ideas' = [ideas EXCEPT ![x.idea].state = "gone"]
  /\ UNCHANGED <<channels, memories, reports, calls, served, alone>>

\* With a database the report and the record of the provider's call are one commit;
\* in the process the research report is made without a provider and without a record.
WriteReport(x, about) ==
  /\ reports' = reports \cup {[channel |-> x.channel, idea |-> about, at |-> x.at,
                               by |-> x.tenant]}
  /\ calls' = IF database THEN calls \cup {[channel |-> x.channel, at |-> x.at]} ELSE calls
  /\ UNCHANGED <<channels, ideas, memories, served, alone>>

Research(x) == WriteReport(x, {x.idea})
Niche(x) == WriteReport(x, {})

Answer(x, owners) ==
  /\ served' = served \cup ({x.tenant} \X owners)
  /\ UNCHANGED <<rows, alone>>

\* These read what belongs to the channel or the idea that was loaded.
GetMemory(x) == Answer(x, {channels[x.channel].owner})
ListIdeas(x) == Answer(x, {channels[x.channel].owner})
GetIdea(x) == Answer(x, {channels[x.channel].owner})
LatestResearch(x) == Answer(x, {channels[x.channel].owner})
ListResearch(x) == Answer(x, {channels[x.channel].owner})
LatestNiche(x) == Answer(x, {channels[x.channel].owner})
ListNiche(x) == Answer(x, {channels[x.channel].owner})

\* list_channels filters by the tenant.
ListChannels(x) ==
  Answer(x, {channels[c].owner : c \in {d \in Channels : MayUse(x.tenant, d)}})

Write(x) ==
  \/ x.op = "createChannel" /\ CreateChannel(x)
  \/ x.op = "patchChannel" /\ PatchChannel(x)
  \/ x.op = "deleteChannel" /\ DeleteChannel(x)
  \/ x.op = "patchMemory" /\ PatchMemory(x)
  \/ x.op = "createIdea" /\ CreateIdea(x)
  \/ x.op = "patchIdea" /\ PatchIdea(x)
  \/ x.op = "setStatus" /\ SetStatus(x)
  \/ x.op = "deleteIdea" /\ DeleteIdea(x)
  \/ x.op = "research" /\ Research(x)
  \/ x.op = "niche" /\ Niche(x)
  \/ x.op = "getMemory" /\ GetMemory(x)
  \/ x.op = "listIdeas" /\ ListIdeas(x)
  \/ x.op = "getIdea" /\ GetIdea(x)
  \/ x.op = "latestResearch" /\ LatestResearch(x)
  \/ x.op = "listResearch" /\ ListResearch(x)
  \/ x.op = "latestNiche" /\ LatestNiche(x)
  \/ x.op = "listNiche" /\ ListNiche(x)
  \/ x.op = "listChannels" /\ ListChannels(x)

-----------------------------------------------------------------------------
(* Without a database: one step per handler *)

\* The niche analysis needs a session and fails without one.
Handle(op, t, c, i, s) ==
  /\ ~database
  /\ now < MaxRequests
  /\ op # "niche"
  /\ Accepted(op, t, c, i, s)
  /\ now' = now + 1
  /\ Write(Load(op, t, c, i, s, TRUE))
  /\ UNCHANGED <<database, open>>

-----------------------------------------------------------------------------
(* With a database *)

Patching(x, c) == x.op = "patchMemory" /\ x.channel = c

Begin(op, t, c, i, s) ==
  /\ database
  /\ Cardinality(open) < MaxOpen
  /\ now < MaxRequests
  /\ Accepted(op, t, c, i, s)
  /\ now' = now + 1
  /\ LET overlap == op = "patchMemory" /\ \E x \in open : Patching(x, c)
     IN  open' = {IF overlap /\ Patching(x, c) THEN [x EXCEPT !.solo = FALSE] ELSE x : x \in open}
                   \cup {Load(op, t, c, i, s, ~overlap)}
  /\ UNCHANGED <<database, rows, served, alone>>

\* Rows that refer to a channel or an idea keep it from being deleted.
Referred(x) ==
  \/ /\ x.op = "deleteChannel"
     /\ \/ \E i \in Ideas : ideas[i].state = "live" /\ ideas[i].channel = x.channel
        \/ \E row \in memories \cup reports \cup calls : row.channel = x.channel
  \/ x.op = "deleteIdea" /\ \E row \in reports : x.idea \in row.idea

\* Mutation: only the parent of what is inserted is checked.
CommitsUnreferred(x) ==
  /\ channels[x.channel].state = "live"
  /\ x.op \in IdeaOps => ideas[x.idea].state = "live"

\* What the commit writes is still there, and so is what it refers to: else an UPDATE
\* finds no row, a foreign key fails or the DELETE does nothing, and so with all of it.
Commits(x) ==
  /\ channels[x.channel].state = "live"
  /\ x.op \in IdeaOps => ideas[x.idea].state = "live"
  /\ x.op = "createIdea" => ideas[x.idea].state = "absent"
  /\ ~Referred(x)

Commit(x) ==
  /\ Commits(x)
  /\ Write(x)
  /\ open' = open \ {x}
  /\ UNCHANGED <<database, now>>

\* The commit fails, the provider's answer is invalid, or the process stops.
Fail(x) ==
  /\ open' = open \ {x}
  /\ UNCHANGED <<database, now, rows, served, alone>>

Next ==
  \/ \E op \in Operations, t \in Tenants, c \in Channels, i \in Ideas,
        s \in Statuses \cup {"unknown"} :
       Handle(op, t, c, i, s) \/ Begin(op, t, c, i, s)
  \/ \E x \in open : Commit(x) \/ Fail(x)

Spec == Init /\ [][Next]_vars

-----------------------------------------------------------------------------
(* Properties *)

\* No tenant writes or is answered rows of another tenant's channel, although the
\* tenant is checked when the request loads the channel and never again
\* (channels.py:37, content_ideas.py:119-133).
Isolated ==
  ~DevMode =>
    /\ \A c \in Channels : channels[c].by = channels[c].owner
    /\ \A i \in Ideas : ideas[i].by = channels[ideas[i].channel].owner
    /\ \A row \in memories \cup reports : row.by = channels[row.channel].owner
    /\ \A p \in served : p[1] = p[2]

\* A PATCH of a channel's memory that overlapped no other one is what is served from
\* then on, also when earlier PATCHes raced and left several rows for the channel
\* (channels.py:186, 217-228).
AloneIsServed ==
  \A c \in Channels : alone[c] # 0 => \E m \in Newest(c) : m.value = alone[c]

\* In the database nothing outlives what it refers to, and a report is about an idea of
\* its own channel.
NoOrphans ==
  database =>
    /\ \A i \in Ideas : ideas[i].state = "live" => channels[ideas[i].channel].state = "live"
    /\ \A row \in memories \cup reports \cup calls : channels[row.channel].state = "live"
    /\ \A row \in reports : \A i \in row.idea :
         ideas[i].state = "live" /\ ideas[i].channel = row.channel
=============================================================================
