----------------------------- MODULE CatalogProofs -----------------------------
(***************************************************************************)
(* Theorems about Catalog, for any number of tenants, channels, ideas and    *)
(* requests, with and without a database.  The inductive invariant says what *)
(* a request may rely on between its loads and its commit, although other    *)
(* requests commit in between: the tenant that was checked still owns the    *)
(* channel, the idea still belongs to it, and a PATCH of a memory that        *)
(* overlapped no other one still holds the newest row.                        *)
(***************************************************************************)
EXTENDS Catalog, TLAPS

\* What is known of a request that has loaded what it needs.
CallOK(x) ==
  /\ x.op \in StatusOps => x.status \in Statuses
  /\ (~DevMode /\ x.op # "listChannels") => channels[x.channel].owner = x.tenant
  /\ x.op \in IdeaOps \cup {"createIdea"} => ideas[x.idea].channel = x.channel
  /\ (x.op = "patchMemory" /\ x.solo) => x.row = LoadedRow(x.channel)

\* A PATCH that overlapped no other one is the only one of its channel.
SoloOK ==
  \A x \in open : x.op = "patchMemory" /\ x.solo =>
    \A y \in open : Patching(y, x.channel) => y = x

NewestOK == \A c \in Channels : MemoriesOf(c) # {} => Newest(c) # {}

\* The inductive invariant.
IInv ==
  /\ TypeOK
  /\ ~database => open = {}
  /\ \A x \in open : CallOK(x)
  /\ SoloOK
  /\ NewestOK
  /\ Isolated
  /\ NoOrphans
  /\ AloneIsServed

\* A newest row, where there is one, is the row a PATCH loads.
LEMMA LoadedIsNewest ==
  ASSUME TypeOK, NewestOK, NEW c \in Channels
  PROVE  /\ LoadedRow(c) = 0 <=> MemoriesOf(c) = {}
         /\ LoadedRow(c) \in MaybeTime
         /\ \A m \in Newest(c) : m.at = LoadedRow(c)
         /\ MemoriesOf(c) # {} => \E m \in Newest(c) : m.at = LoadedRow(c)
<1>1. CASE MemoriesOf(c) = {}
  BY <1>1, CatalogModes DEF LoadedRow, Newest, MaybeTime
<1>2. CASE MemoriesOf(c) # {}
  <2>1. PICK n \in Newest(c) : n = CHOOSE m \in Newest(c) : TRUE
    BY <1>2 DEF NewestOK
  <2>2. n \in MemoryRows /\ n.at \in Times /\ LoadedRow(c) = n.at
    BY <1>2, <2>1 DEF Newest, MemoriesOf, TypeOK, MemoryRows, LoadedRow
  <2>3. n.at \in Nat /\ n.at # 0 /\ n.at \in MaybeTime
    BY <2>2, CatalogModes DEF Times, MaybeTime
  <2>4. ASSUME NEW m \in Newest(c) PROVE m.at = n.at
    <3>1. m.at <= n.at /\ n.at <= m.at
      BY <2>1 DEF Newest
    <3>2. m.at \in Nat
      BY CatalogModes DEF Newest, MemoriesOf, TypeOK, MemoryRows, Times
    <3> QED  BY <3>1, <3>2, <2>3
  <2> QED  BY <1>2, <2>1, <2>2, <2>3, <2>4
<1> QED  BY <1>1, <1>2

\* What a handler has loaded when it was accepted.
LEMMA AcceptedFacts ==
  ASSUME TypeOK, NewestOK, now < MaxRequests,
         NEW op \in Operations, NEW t \in Tenants, NEW c \in Channels, NEW i \in Ideas,
         NEW s \in Statuses \cup {"unknown"}, NEW solo \in BOOLEAN,
         Accepted(op, t, c, i, s)
  PROVE  Load(op, t, c, i, s, solo) \in Calls /\ CallOK(Load(op, t, c, i, s, solo))
<1> DEFINE x == Load(op, t, c, i, s, solo)
<1>1. now + 1 \in Times
  BY CatalogModes DEF TypeOK, Times, MaybeTime
<1>2. LoadedRow(c) \in MaybeTime
  BY LoadedIsNewest
<1>3. 0 \in MaybeTime
  BY CatalogModes DEF MaybeTime
<1>4. x \in Calls
  BY <1>1, <1>2, <1>3 DEF Load, Calls
<1>5. CallOK(x)
  BY DEF Accepted, AcceptedStatus, CallOK, Load, MayUseIdea, MayUse, StatusOps, IdeaOps, ChannelOps
<1> QED  BY <1>4, <1>5

-----------------------------------------------------------------------------
(* What a write does, given what its request has loaded *)

\* The operations that answer rows of the channel they loaded.
Reads == {"getMemory", "listIdeas", "getIdea", "latestResearch", "listResearch", "latestNiche",
          "listNiche"}

\* The channels that list_channels answers belong to these.
Listed(t) == {channels[c].owner : c \in {d \in Channels : MayUse(t, d)}}

\* What the operations write, those that write alike taken together.
Written(x) ==
  \/ x.op = "createChannel" /\ CreateChannel(x)
  \/ x.op = "patchChannel" /\ PatchChannel(x)
  \/ x.op = "deleteChannel" /\ DeleteChannel(x)
  \/ x.op = "patchMemory" /\ PatchMemory(x)
  \/ x.op = "createIdea" /\ CreateIdea(x)
  \/ x.op \in {"patchIdea", "setStatus"} /\ PatchIdea(x)
  \/ x.op = "deleteIdea" /\ DeleteIdea(x)
  \/ x.op = "research" /\ WriteReport(x, {x.idea})
  \/ x.op = "niche" /\ WriteReport(x, {})
  \/ x.op \in Reads /\ Answer(x, {channels[x.channel].owner})
  \/ x.op = "listChannels" /\ Answer(x, Listed(x.tenant))

\* Every operation is one of these.
LEMMA WriteCases ==
  ASSUME NEW x, Write(x)
  PROVE  Written(x)
BY DEF Write, Written, Reads, Listed, SetStatus, Research, Niche, GetMemory, ListIdeas, GetIdea,
   LatestResearch, ListResearch, LatestNiche, ListNiche, ListChannels

\* Channels keep their owner and ideas their channel, whatever is written.
LEMMA WriteKeeps ==
  ASSUME TypeOK, NEW x \in Calls, Write(x)
  PROVE  /\ \A c \in Channels : channels'[c].owner = channels[c].owner
         /\ \A i \in Ideas : ideas'[i].channel = ideas[i].channel
<1>1. x.channel \in Channels /\ x.idea \in Ideas
  BY DEF Calls
<1>2. CASE CreateChannel(x) \/ PatchChannel(x) \/ DeleteChannel(x)
  BY <1>1, <1>2 DEF CreateChannel, PatchChannel, DeleteChannel, TypeOK, ChannelRows
<1>3. CASE CreateIdea(x)
  BY <1>1, <1>3 DEF CreateIdea, TypeOK, IdeaRows
<1>4. CASE PatchIdea(x)
  BY <1>1, <1>4 DEF PatchIdea, TypeOK, IdeaRows
<1>5. CASE DeleteIdea(x)
  BY <1>1, <1>5 DEF DeleteIdea, TypeOK, IdeaRows
<1>6. CASE UNCHANGED <<channels, ideas>>
  BY <1>6
<1> QED
  BY <1>2, <1>3, <1>4, <1>5, <1>6, WriteCases
     DEF Written, Reads, PatchMemory, WriteReport, Answer, rows

\* What a read answers is of the caller's tenant.
LEMMA AnswerFacts ==
  ASSUME TypeOK, NEW x \in Calls, CallOK(x), NEW owners \in SUBSET Tenants, Answer(x, owners),
         ~DevMode => owners \subseteq {x.tenant}
  PROVE  /\ served' \subseteq Tenants \X Tenants
         /\ (~DevMode /\ \A p \in served : p[1] = p[2]) => \A p \in served' : p[1] = p[2]
<1>1. x.tenant \in Tenants
  BY DEF Calls
<1>2. {x.tenant} \X owners \subseteq Tenants \X Tenants
  BY <1>1
<1>3. \A p \in {x.tenant} \X owners : p[1] = x.tenant /\ p[2] \in owners
  OBVIOUS
<1>4. served' = served \cup ({x.tenant} \X owners)
  BY DEF Answer
<1> QED  BY <1>2, <1>3, <1>4 DEF TypeOK

\* A PATCH of a memory leaves the other rows alone and keeps created_at.
LEMMA PatchedRows ==
  ASSUME TypeOK, NEW x \in Calls, PatchMemory(x), NEW m \in memories'
  PROVE  /\ m \in MemoryRows
         /\ \/ m \in memories /\ ~(m.channel = x.channel /\ m.at = x.row)
            \/ /\ m.channel = x.channel /\ m.by = x.tenant /\ m.value = x.at
               /\ \/ x.row = 0 /\ m.at = x.at
                  \/ x.row # 0 /\ m.at = x.row
         /\ x.row # 0 => \E n \in memories : n.channel = m.channel /\ n.at = m.at
<1>1. /\ x.channel \in Channels /\ x.tenant \in Tenants /\ x.at \in Times /\ 0 \notin Times
  BY CatalogModes DEF Calls, Times
<1>2. \A n \in memories : n \in MemoryRows /\ n.at # 0
  BY <1>1 DEF TypeOK, MemoryRows
<1>3. CASE x.row = 0
  <2>1. m \in memories \/ m = [channel |-> x.channel, at |-> x.at, value |-> x.at, by |-> x.tenant]
    BY <1>3 DEF PatchMemory
  <2> QED  BY <1>1, <1>2, <1>3, <2>1 DEF MemoryRows
<1>4. CASE x.row # 0
  <2>1. PICK n \in memories :
          m = IF n.channel = x.channel /\ n.at = x.row
                THEN [n EXCEPT !.value = x.at, !.by = x.tenant] ELSE n
    BY <1>4 DEF PatchMemory
  <2>2. n \in MemoryRows
    BY <1>2
  <2>3. CASE n.channel = x.channel /\ n.at = x.row
    BY <1>1, <1>4, <2>1, <2>2, <2>3 DEF MemoryRows
  <2>4. CASE ~(n.channel = x.channel /\ n.at = x.row)
    BY <1>4, <2>1, <2>2, <2>4
  <2> QED  BY <2>3, <2>4
<1> QED  BY <1>3, <1>4

\* Writes keep the types.
LEMMA WriteTypes ==
  ASSUME TypeOK, NEW x \in Calls, CallOK(x), Write(x)
  PROVE  /\ channels' \in [Channels -> ChannelRows]
         /\ ideas' \in [Ideas -> IdeaRows]
         /\ memories' \subseteq MemoryRows
         /\ reports' \subseteq ReportRows
         /\ calls' \subseteq [channel : Channels, at : Times]
         /\ alone' \in [Channels -> MaybeTime]
<1>1. /\ x.channel \in Channels /\ x.idea \in Ideas /\ x.tenant \in Tenants
      /\ x.at \in Times /\ x.at \in MaybeTime /\ 0 \in MaybeTime
  BY CatalogModes DEF Calls, Times, MaybeTime
<1>2. CASE CreateChannel(x) \/ PatchChannel(x) \/ DeleteChannel(x)
  BY <1>1, <1>2 DEF CreateChannel, PatchChannel, DeleteChannel, TypeOK, ChannelRows, States
<1>3. CASE PatchMemory(x)
  <2>1. memories' \subseteq MemoryRows
    BY <1>3, PatchedRows
  <2> QED  BY <1>1, <1>3, <2>1 DEF PatchMemory, TypeOK
<1>4. CASE (CreateIdea(x) \/ PatchIdea(x)) /\ x.status \in Statuses
  <2>1. "live" \in States
    BY DEF States
  <2>2. CASE CreateIdea(x)
    BY <1>1, <1>4, <2>1, <2>2 DEF CreateIdea, TypeOK, IdeaRows
  <2>3. CASE PatchIdea(x)
    BY <1>1, <1>4, <2>3 DEF PatchIdea, TypeOK, IdeaRows
  <2> QED  BY <1>4, <2>2, <2>3
<1>5. CASE DeleteIdea(x)
  BY <1>1, <1>5 DEF DeleteIdea, TypeOK, IdeaRows, States
<1>6. ASSUME NEW about \in SUBSET Ideas, WriteReport(x, about)
      PROVE  /\ reports' \subseteq ReportRows
             /\ calls' \subseteq [channel : Channels, at : Times]
             /\ UNCHANGED <<channels, ideas, memories, alone>>
  BY <1>1, <1>6 DEF WriteReport, TypeOK, ReportRows
<1>7. CASE x.op \in {"research", "niche"}
  BY <1>1, <1>6, <1>7, WriteCases DEF Written, Reads, TypeOK
<1>8. CASE \E owners : Answer(x, owners)
  BY <1>8 DEF Answer, rows, TypeOK
<1> QED
  BY <1>2, <1>3, <1>4, <1>5, <1>7, <1>8, WriteCases DEF Written, Reads, CallOK, StatusOps

\* Writes keep the tenants apart.
LEMMA WriteIsolates ==
  ASSUME TypeOK, Isolated, NEW x \in Calls, CallOK(x), Write(x)
  PROVE  Isolated' /\ served' \subseteq Tenants \X Tenants
<1>1. x.channel \in Channels /\ x.idea \in Ideas /\ x.tenant \in Tenants
  BY DEF Calls
<1>2. ASSUME NEW owners \in SUBSET Tenants, Answer(x, owners),
             ~DevMode => owners \subseteq {x.tenant}
      PROVE  Isolated' /\ served' \subseteq Tenants \X Tenants
  BY <1>2, AnswerFacts DEF Isolated, Answer, rows
<1>3. CASE x.op \in Reads
  <2>1. {channels[x.channel].owner} \in SUBSET Tenants
    BY <1>1 DEF TypeOK, ChannelRows
  <2>2. ~DevMode => {channels[x.channel].owner} \subseteq {x.tenant}
    BY <1>3 DEF CallOK, Reads
  <2> QED  BY <1>2, <1>3, <2>1, <2>2, WriteCases DEF Written, Reads
<1>4. CASE x.op = "listChannels"
  <2>1. Listed(x.tenant) \in SUBSET Tenants
    BY DEF Listed, TypeOK, ChannelRows
  <2>2. ~DevMode => Listed(x.tenant) \subseteq {x.tenant}
    BY DEF Listed, MayUse
  <2> QED  BY <1>2, <1>4, <2>1, <2>2, WriteCases DEF Written, Reads
<1>5. CASE x.op \in {"createChannel", "patchChannel", "deleteChannel"}
  <2>1. CreateChannel(x) \/ PatchChannel(x) \/ DeleteChannel(x)
    BY <1>5, WriteCases DEF Written, Reads
  <2>2. ~DevMode => channels[x.channel].owner = x.tenant
    BY <1>5 DEF CallOK
  <2>3. UNCHANGED <<ideas, memories, reports, served>>
    BY <2>1 DEF CreateChannel, PatchChannel, DeleteChannel
  <2>4. \A c \in Channels : channels'[c].owner = channels[c].owner
    BY WriteKeeps
  <2>5. ~DevMode => \A c \in Channels : channels'[c].by = channels'[c].owner
    BY <1>1, <2>1, <2>2
    DEF CreateChannel, PatchChannel, DeleteChannel, Isolated, TypeOK, ChannelRows
  <2>6. /\ \A i \in Ideas : ideas[i].channel \in Channels
        /\ \A row \in memories \cup reports : row.channel \in Channels
    BY DEF TypeOK, IdeaRows, MemoryRows, ReportRows
  <2> QED  BY <2>3, <2>4, <2>5, <2>6 DEF Isolated, TypeOK
<1>6. CASE x.op = "patchMemory"
  <2>1. PatchMemory(x) /\ (~DevMode => channels[x.channel].owner = x.tenant)
    BY <1>6, WriteCases DEF Written, Reads, CallOK
  <2>2. \A row \in memories' : \/ row.channel = x.channel /\ row.by = x.tenant
                              \/ row \in memories
    BY <2>1, PatchedRows
  <2> QED  BY <2>1, <2>2 DEF PatchMemory, Isolated, TypeOK
<1>7. CASE x.op \in {"createIdea", "patchIdea", "setStatus", "deleteIdea"}
  <2>1. CreateIdea(x) \/ PatchIdea(x) \/ DeleteIdea(x)
    BY <1>7, WriteCases DEF Written, Reads
  <2>2. ~DevMode => channels[ideas[x.idea].channel].owner = x.tenant
    BY <1>7 DEF CallOK, IdeaOps
  <2>3. UNCHANGED <<channels, memories, reports, served>>
    BY <2>1 DEF CreateIdea, PatchIdea, DeleteIdea
  <2>4. ~DevMode => \A i \in Ideas : ideas'[i].by = channels[ideas'[i].channel].owner
    BY <1>1, <2>1, <2>2 DEF CreateIdea, PatchIdea, DeleteIdea, Isolated, TypeOK, IdeaRows
  <2> QED  BY <2>3, <2>4 DEF Isolated, TypeOK
<1>8. CASE x.op \in {"research", "niche"}
  <2>1. ~DevMode => channels[x.channel].owner = x.tenant
    BY <1>8 DEF CallOK
  <2>2. \E about : WriteReport(x, about)
    BY <1>8, WriteCases DEF Written, Reads
  <2> QED  BY <2>1, <2>2 DEF WriteReport, Isolated, TypeOK
<1> QED  BY <1>3, <1>4, <1>5, <1>6, <1>7, <1>8, WriteCases DEF Written, Reads

\* Every row is still there after a PATCH, as old as it was.
LEMMA PatchedImages ==
  ASSUME TypeOK, NEW x \in Calls, PatchMemory(x), x.row # 0, NEW n \in memories
  PROVE  \E m \in memories' :
           /\ m.channel = n.channel /\ m.at = n.at
           /\ n.channel = x.channel /\ n.at = x.row => m.value = x.at
           /\ ~(n.channel = x.channel /\ n.at = x.row) => m = n
<1> DEFINE F(k) == IF k.channel = x.channel /\ k.at = x.row
                     THEN [k EXCEPT !.value = x.at, !.by = x.tenant] ELSE k
<1>1. memories' = {F(k) : k \in memories}
  BY DEF PatchMemory
<1>2. F(n) \in memories'
  BY <1>1
<1>3. n \in MemoryRows
  BY DEF TypeOK
<1>4. /\ F(n).channel = n.channel /\ F(n).at = n.at
      /\ n.channel = x.channel /\ n.at = x.row => F(n).value = x.at
      /\ ~(n.channel = x.channel /\ n.at = x.row) => F(n) = n
  BY <1>3 DEF MemoryRows
<1> QED  BY <1>2, <1>4

\* Rows of other channels are left alone.
LEMMA PatchedElsewhere ==
  ASSUME TypeOK, NEW x \in Calls, PatchMemory(x), NEW c \in Channels, c # x.channel
  PROVE  MemoriesOf(c)' = MemoriesOf(c) /\ alone'[c] = alone[c]
<1>1. ASSUME NEW m \in memories', m.channel = c PROVE m \in memories
  BY <1>1, PatchedRows
<1>2. ASSUME NEW m \in memories, m.channel = c PROVE m \in memories'
  <2>1. CASE x.row = 0
    BY <2>1 DEF PatchMemory
  <2>2. CASE x.row # 0
    BY <1>2, <2>2, PatchedImages
  <2> QED  BY <2>1, <2>2
<1>3. alone'[c] = alone[c]
  BY DEF PatchMemory, TypeOK
<1> QED  BY <1>1, <1>2, <1>3 DEF MemoriesOf

\* After a PATCH its channel has a newest row, which holds the memory of a PATCH that
\* overlapped no other one.
LEMMA PatchServes ==
  ASSUME TypeOK, NewestOK, NEW x \in Calls, PatchMemory(x),
         x.solo => x.row = LoadedRow(x.channel)
  PROVE  LET c == x.channel IN
         /\ MemoriesOf(c)' # {} => Newest(c)' # {}
         /\ alone'[c] # 0 => \E m \in Newest(c)' : m.value = alone'[c]
<1> DEFINE c == x.channel
<1>1. /\ c \in Channels /\ x.at \in Nat /\ x.at \in Times /\ x.tenant \in Tenants
      /\ alone'[c] = IF x.solo THEN x.at ELSE 0
  <2>1. c \in Channels /\ x.at \in Times /\ x.tenant \in Tenants
    BY DEF Calls
  <2>2. x.at \in Nat
    BY <2>1, CatalogModes DEF Times
  <2>3. alone'[c] = IF x.solo THEN x.at ELSE 0
    BY <2>1 DEF PatchMemory, TypeOK
  <2> QED  BY <2>1, <2>2, <2>3
<1>2. \A m \in memories : m.at \in Nat
  BY CatalogModes DEF TypeOK, MemoryRows, Times
<1>3. CASE x.row = 0
  <2> DEFINE r == [channel |-> c, at |-> x.at, value |-> x.at, by |-> x.tenant]
  <2>1. memories' = memories \cup {r}
    BY <1>3 DEF PatchMemory
  <2>2. MemoriesOf(c)' = MemoriesOf(c) \cup {r}
    BY <2>1 DEF MemoriesOf
  <2>3. CASE MemoriesOf(c) = {}
    <3>1. r \in Newest(c)'
      BY <1>1, <2>2, <2>3 DEF Newest
    <3> QED  BY <1>1, <3>1
  <2>4. CASE MemoriesOf(c) # {}
    <3>1. PICK n \in Newest(c) : TRUE
      BY <1>1, <2>4 DEF NewestOK
    <3>2. /\ n \in MemoriesOf(c) /\ n.at \in Nat
          /\ \A k \in MemoriesOf(c) : k.at <= n.at /\ k.at \in Nat
      BY <1>2, <3>1 DEF Newest, MemoriesOf
    <3>3. CASE n.at <= x.at
      <4>1. \A k \in MemoriesOf(c) : k.at <= r.at
        BY <1>1, <3>2, <3>3
      <4> QED  BY <1>1, <2>2, <4>1, <2>4, <1>3, LoadedIsNewest DEF Newest
    <3>4. CASE ~(n.at <= x.at)
      <4>1. n \in MemoriesOf(c)' /\ \A k \in MemoriesOf(c)' : k.at <= n.at
        BY <1>1, <2>2, <3>2, <3>4
      <4> QED  BY <1>1, <4>1, <2>4, <1>3, LoadedIsNewest DEF Newest
    <3> QED  BY <3>3, <3>4
  <2> QED  BY <2>3, <2>4
<1>4. CASE x.row # 0
  <2>1. CASE MemoriesOf(c) = {}
    <3>1. MemoriesOf(c)' = {}
      BY <1>4, <2>1, PatchedRows DEF MemoriesOf
    <3>2. ~x.solo
      BY <1>1, <1>4, <2>1, LoadedIsNewest
    <3> QED  BY <1>1, <3>1, <3>2
  <2>2. CASE MemoriesOf(c) # {}
    <3>1. PICK n \in Newest(c) : n.at = LoadedRow(c)
      BY <1>1, <2>2, LoadedIsNewest
    <3>2. n \in memories /\ n.channel = c /\ \A k \in memories : k.channel = c => k.at <= n.at
      BY <3>1 DEF Newest, MemoriesOf
    <3>3. PICK m \in memories' : /\ m.channel = c /\ m.at = n.at
                                 /\ n.at = x.row => m.value = x.at
      BY <1>4, <3>2, PatchedImages
    <3>4. \A k \in memories' : k.channel = c => k.at <= m.at
      BY <1>4, <3>2, <3>3, PatchedRows
    <3>5. m \in Newest(c)'
      BY <3>3, <3>4 DEF Newest, MemoriesOf
    <3> QED  BY <1>1, <3>1, <3>3, <3>5
  <2> QED  BY <2>1, <2>2
<1> QED  BY <1>3, <1>4

\* A write serves the PATCHes that overlapped no other one, and leaves the memory of
\* every channel it is not a PATCH of alone.
LEMMA WriteServes ==
  ASSUME TypeOK, NewestOK, AloneIsServed, NEW x \in Calls, CallOK(x), Write(x)
  PROVE  /\ NewestOK' /\ AloneIsServed'
         /\ \A c \in Channels : ~Patching(x, c) => MemoriesOf(c)' = MemoriesOf(c)
<1>1. CASE x.op = "patchMemory"
  <2>1. PatchMemory(x) /\ (x.solo => x.row = LoadedRow(x.channel))
    BY <1>1, WriteCases DEF Written, Reads, CallOK
  <2>2. \A c \in Channels : c # x.channel => MemoriesOf(c)' = MemoriesOf(c) /\ alone'[c] = alone[c]
    BY <2>1, PatchedElsewhere
  <2>3. \A c \in Channels : c # x.channel => Newest(c)' = Newest(c)
    BY <2>2 DEF Newest
  <2>4. LET c == x.channel IN
          /\ MemoriesOf(c)' # {} => Newest(c)' # {}
          /\ alone'[c] # 0 => \E m \in Newest(c)' : m.value = alone'[c]
    BY <2>1, PatchServes
  <2>5. NewestOK'
    BY <2>2, <2>3, <2>4 DEF NewestOK
  <2>6. AloneIsServed'
    BY <2>2, <2>3, <2>4 DEF AloneIsServed
  <2> QED  BY <1>1, <2>2, <2>5, <2>6 DEF Patching
<1>2. CASE x.op # "patchMemory"
  <2>1. UNCHANGED <<memories, alone>>
    BY <1>2, WriteCases
    DEF Written, Reads, CreateChannel, PatchChannel, DeleteChannel, CreateIdea, PatchIdea,
       DeleteIdea,
       WriteReport, Answer, rows
  <2>2. \A c \in Channels : MemoriesOf(c)' = MemoriesOf(c) /\ Newest(c)' = Newest(c)
    BY <2>1 DEF MemoriesOf, Newest
  <2> QED  BY <2>1, <2>2 DEF NewestOK, AloneIsServed
<1> QED  BY <1>1, <1>2

\* What commits leaves no orphans.
LEMMA CommitLeavesNoOrphans ==
  ASSUME TypeOK, NoOrphans, database' = database, NEW x \in Calls, CallOK(x), Commits(x),
         Write(x)
  PROVE  NoOrphans'
<1> SUFFICES ASSUME database PROVE NoOrphans'
  BY DEF NoOrphans
<1>1. /\ x.channel \in Channels /\ x.idea \in Ideas
      /\ channels[x.channel].state = "live"
  BY DEF Calls, Commits
<1>2. /\ \A i \in Ideas : ideas[i].channel \in Channels
      /\ \A row \in memories \cup reports \cup calls : row.channel \in Channels
      /\ \A row \in reports : row.idea \subseteq Ideas
  BY DEF TypeOK, IdeaRows, MemoryRows, ReportRows
<1>3. CASE x.op \in {"createChannel", "patchChannel", "deleteChannel"}
  <2>1. CreateChannel(x) \/ PatchChannel(x) \/ DeleteChannel(x)
    BY <1>3, WriteCases DEF Written, Reads
  <2>2. UNCHANGED <<ideas, memories, reports, calls>>
    BY <2>1 DEF CreateChannel, PatchChannel, DeleteChannel
  <2>3. \A c \in Channels : \/ channels'[c].state = channels[c].state
                            \/ /\ c = x.channel
                               /\ channels'[c].state = "live" \/ x.op = "deleteChannel"
    <3>1. \/ x.op = "deleteChannel" /\ DeleteChannel(x)
          \/ CreateChannel(x)
          \/ PatchChannel(x)
      BY <1>3, WriteCases DEF Written, Reads
    <3> QED
      BY <1>1, <3>1 DEF CreateChannel, PatchChannel, DeleteChannel, TypeOK, ChannelRows
  <2>4. x.op = "deleteChannel" =>
          /\ \A i \in Ideas : ideas[i].state = "live" => ideas[i].channel # x.channel
          /\ \A row \in memories \cup reports \cup calls : row.channel # x.channel
    BY DEF Commits, Referred
  <2> QED  BY <1>2, <2>2, <2>3, <2>4 DEF NoOrphans
<1>4. CASE x.op = "patchMemory"
  <2>1. PatchMemory(x)
    BY <1>4, WriteCases DEF Written, Reads
  <2>2. \A row \in memories' : channels[row.channel].state = "live"
    BY <1>1, <2>1, PatchedRows DEF NoOrphans
  <2> QED  BY <2>1, <2>2 DEF PatchMemory, NoOrphans
<1>5. CASE x.op \in {"createIdea", "patchIdea", "setStatus"}
  <2>1. CreateIdea(x) \/ PatchIdea(x)
    BY <1>5, WriteCases DEF Written, Reads
  <2>2. UNCHANGED <<channels, memories, reports, calls>>
    BY <2>1 DEF CreateIdea, PatchIdea
  <2>3. /\ \A i \in Ideas : ideas'[i].channel = ideas[i].channel
        /\ \A i \in Ideas \ {x.idea} : ideas'[i] = ideas[i]
        /\ ideas[x.idea].state = "live" => ideas'[x.idea].state = "live"
    <3>1. \A i \in Ideas : ideas'[i].channel = ideas[i].channel
      BY WriteKeeps
    <3>2. CASE CreateIdea(x)
      BY <1>1, <3>1, <3>2 DEF CreateIdea, TypeOK, IdeaRows
    <3>3. CASE PatchIdea(x)
      BY <1>1, <3>1, <3>3 DEF PatchIdea, TypeOK, IdeaRows
    <3> QED  BY <2>1, <3>2, <3>3
  <2>4. ideas[x.idea].channel = x.channel \/ ideas[x.idea].state = ideas'[x.idea].state
    BY <1>5 DEF CallOK, IdeaOps
  <2> QED  BY <1>1, <1>2, <2>2, <2>3, <2>4 DEF NoOrphans
<1>6. CASE x.op = "deleteIdea"
  <2>1. DeleteIdea(x) /\ \A row \in reports : x.idea \notin row.idea
    BY <1>6, WriteCases DEF Written, Reads, Commits, Referred
  <2>2. UNCHANGED <<channels, memories, reports, calls>>
    BY <2>1 DEF DeleteIdea
  <2>3. /\ \A i \in Ideas : ideas'[i].channel = ideas[i].channel
        /\ \A i \in Ideas \ {x.idea} : ideas'[i] = ideas[i]
        /\ ideas'[x.idea].state = "gone"
    BY <1>1, <2>1, WriteKeeps DEF DeleteIdea, TypeOK, IdeaRows
  <2> QED  BY <1>1, <1>2, <2>1, <2>2, <2>3 DEF NoOrphans
<1>7. CASE x.op \in {"research", "niche"}
  <2>1. PICK about \in SUBSET {x.idea} : WriteReport(x, about) /\ (x.op = "niche" => about = {})
    BY <1>7, WriteCases DEF Written, Reads
  <2>2. x.op = "research" => ideas[x.idea].state = "live" /\ ideas[x.idea].channel = x.channel
    BY DEF Commits, CallOK, IdeaOps
  <2>3. \A i \in about : ideas[i].state = "live" /\ ideas[i].channel = x.channel
    BY <1>7, <2>1, <2>2
  <2>4. reports' = reports \cup {[channel |-> x.channel, idea |-> about, at |-> x.at,
                                  by |-> x.tenant]}
    BY <2>1 DEF WriteReport
  <2>5. \A row \in calls' : row \in calls \/ row.channel = x.channel
    BY <2>1 DEF WriteReport
  <2> QED  BY <1>1, <2>1, <2>3, <2>4, <2>5 DEF WriteReport, NoOrphans
<1>8. CASE \E owners : Answer(x, owners)
  BY <1>8 DEF Answer, rows, NoOrphans
<1> QED  BY <1>3, <1>4, <1>5, <1>6, <1>7, <1>8, WriteCases DEF Written, Reads

-----------------------------------------------------------------------------
(* Steps *)

\* What a request knows stays true while other requests write.
LEMMA OthersStayOK ==
  ASSUME TypeOK, SoloOK, NEW x \in Calls, Write(x), NEW y \in open, y \in Calls, CallOK(y),
         \A c \in Channels : ~Patching(x, c) => MemoriesOf(c)' = MemoriesOf(c),
         y.op = "patchMemory" /\ y.solo => ~Patching(x, y.channel)
  PROVE  CallOK(y)'
<1>1. y.channel \in Channels /\ y.idea \in Ideas
  BY DEF Calls
<1>2. /\ channels'[y.channel].owner = channels[y.channel].owner
      /\ ideas'[y.idea].channel = ideas[y.idea].channel
  BY <1>1, WriteKeeps
<1>3. ASSUME y.op = "patchMemory", y.solo
      PROVE  LoadedRow(y.channel)' = LoadedRow(y.channel)
  <2>1. MemoriesOf(y.channel)' = MemoriesOf(y.channel)
    BY <1>1, <1>3
  <2>2. Newest(y.channel)' = Newest(y.channel)
    BY <2>1 DEF Newest
  <2> QED  BY <2>1, <2>2 DEF LoadedRow
<1> QED  BY <1>2, <1>3 DEF CallOK

\* Without a database: every handler.
LEMMA HandleKeeps ==
  ASSUME IInv, NEW op \in Operations, NEW t \in Tenants, NEW c \in Channels, NEW i \in Ideas,
         NEW s \in Statuses \cup {"unknown"}, Handle(op, t, c, i, s)
  PROVE  IInv'
<1> DEFINE x == Load(op, t, c, i, s, TRUE)
<1>1. x \in Calls /\ CallOK(x) /\ Write(x)
  BY AcceptedFacts DEF IInv, Handle
<1>2. TypeOK'
  <2>1. now' \in MaybeTime
    BY CatalogModes DEF IInv, TypeOK, Handle, MaybeTime
  <2> QED  BY <1>1, <2>1, WriteTypes, WriteIsolates DEF IInv, TypeOK, Handle
<1>3. Isolated' /\ NewestOK' /\ AloneIsServed'
  BY <1>1, WriteIsolates, WriteServes DEF IInv
<1> QED  BY <1>2, <1>3 DEF IInv, Handle, SoloOK, NoOrphans

\* With a database: a request that begins.
LEMMA BeginKeeps ==
  ASSUME IInv, NEW op \in Operations, NEW t \in Tenants, NEW c \in Channels, NEW i \in Ideas,
         NEW s \in Statuses \cup {"unknown"}, Begin(op, t, c, i, s)
  PROVE  IInv'
<1> DEFINE overlap == op = "patchMemory" /\ \E x \in open : Patching(x, c)
           F(x) == IF overlap /\ Patching(x, c) THEN [x EXCEPT !.solo = FALSE] ELSE x
           new == Load(op, t, c, i, s, ~overlap)
<1>1. new \in Calls /\ CallOK(new)
  BY AcceptedFacts DEF IInv, Begin
<1>2. UNCHANGED <<database, rows, served, alone>> /\ database
  BY DEF Begin
<1>3. open' = {F(x) : x \in open} \cup {new}
  BY DEF Begin
<1>4. ASSUME NEW x \in open
      PROVE  /\ F(x) \in Calls /\ CallOK(F(x))
             /\ F(x).op = x.op /\ F(x).channel = x.channel
             /\ F(x).solo => F(x) = x /\ ~(overlap /\ Patching(x, c))
  <2>1. x \in Calls /\ CallOK(x)
    BY DEF IInv, TypeOK
  <2>2. CASE overlap /\ Patching(x, c)
    BY <2>1, <2>2 DEF Calls, CallOK
  <2>3. CASE ~(overlap /\ Patching(x, c))
    BY <2>1, <2>3
  <2> QED  BY <2>2, <2>3
<1>5. /\ new.op = op /\ new.channel = c /\ new.solo = ~overlap
  BY DEF Load
<1>6. SoloOK'
  <2> SUFFICES ASSUME NEW x \in open', x.op = "patchMemory", x.solo, NEW y \in open',
                      Patching(y, x.channel)
               PROVE  y = x
    BY DEF SoloOK, Patching
  <2>1. CASE x = new
    <3>1. op = "patchMemory" /\ ~overlap
      BY <1>5, <2>1
    <3>2. \A z \in open : ~Patching(F(z), c)
      BY <1>4, <3>1 DEF Patching
    <3> QED  BY <1>3, <1>5, <2>1, <3>2
  <2>2. CASE x # new
    <3>1. PICK k \in open : x = F(k)
      BY <1>3, <2>2
    <3>2. x = k /\ ~(overlap /\ Patching(k, c))
      BY <1>4, <3>1
    <3>3. ~Patching(new, x.channel)
      BY <1>5, <3>2 DEF Patching
    <3>4. PICK l \in open : y = F(l)
      BY <1>3, <3>3
    <3>5. Patching(l, x.channel)
      BY <1>4, <3>4 DEF Patching
    <3>6. l = k
      BY <3>2, <3>5 DEF IInv, SoloOK, Patching
    <3> QED  BY <3>1, <3>4, <3>6
  <2> QED  BY <2>1, <2>2
<1>7. \A x \in open' : CallOK(x)'
  <2>1. \A x \in open' : CallOK(x)
    BY <1>1, <1>3, <1>4
  <2>2. \A a \in Channels : LoadedRow(a)' = LoadedRow(a)
    BY <1>2 DEF rows, LoadedRow, Newest, MemoriesOf
  <2>3. \A x \in open' : x.channel \in Channels
    BY <1>1, <1>3, <1>4 DEF Calls
  <2> QED  BY <1>2, <2>1, <2>2, <2>3 DEF rows, CallOK
<1>8. TypeOK'
  <2>1. now' \in MaybeTime
    BY CatalogModes DEF IInv, TypeOK, Begin, MaybeTime, Times
  <2>2. open' \subseteq Calls
    BY <1>1, <1>3, <1>4
  <2> QED  BY <1>2, <2>1, <2>2 DEF IInv, TypeOK, rows
<1>9. NewestOK' /\ AloneIsServed' /\ Isolated' /\ NoOrphans'
  BY <1>2 DEF IInv, rows, NewestOK, AloneIsServed, Isolated, NoOrphans, Newest, MemoriesOf
<1> QED  BY <1>2, <1>6, <1>7, <1>8, <1>9 DEF IInv

\* With a database: a request that commits.
LEMMA CommitKeeps ==
  ASSUME IInv, NEW x \in open, Commit(x)
  PROVE  IInv'
<1>1. x \in Calls /\ CallOK(x) /\ Write(x) /\ Commits(x) /\ database
  BY DEF IInv, TypeOK, Commit
<1>2. open' \subseteq open \ {x} /\ UNCHANGED <<database, now>>
  BY DEF Commit
<1>3. TypeOK' /\ Isolated'
  <2>1. open' \subseteq Calls
    BY <1>2 DEF IInv, TypeOK
  <2> QED  BY <1>1, <1>2, <2>1, WriteTypes, WriteIsolates DEF IInv, TypeOK
<1>4. NewestOK' /\ AloneIsServed' /\ NoOrphans'
  BY <1>1, <1>2, WriteServes, CommitLeavesNoOrphans DEF IInv
<1>5. ASSUME NEW y \in open' PROVE CallOK(y)'
  <2>1. y \in open /\ y # x /\ y \in Calls /\ CallOK(y)
    BY <1>2 DEF IInv, TypeOK
  <2>2. y.op = "patchMemory" /\ y.solo => ~Patching(x, y.channel)
    BY <2>1 DEF IInv, SoloOK
  <2>3. \A c \in Channels : ~Patching(x, c) => MemoriesOf(c)' = MemoriesOf(c)
    BY <1>1, WriteServes DEF IInv
  <2> QED  BY <1>1, <2>1, <2>2, <2>3, OthersStayOK DEF IInv
<1>6. SoloOK'
  BY <1>2 DEF IInv, SoloOK, Patching
<1> QED  BY <1>1, <1>2, <1>3, <1>4, <1>5, <1>6 DEF IInv

\* With a database: a request that fails, or nothing at all.
LEMMA RestKeeps ==
  ASSUME IInv, (\E x \in open : Fail(x)) \/ UNCHANGED vars
  PROVE  IInv'
<1>1. open' \subseteq open /\ UNCHANGED <<database, now, rows, served, alone>>
  BY DEF Fail, vars
<1>2. \A c \in Channels : LoadedRow(c)' = LoadedRow(c)
  BY <1>1 DEF rows, LoadedRow, Newest, MemoriesOf
<1>3. \A x \in open' : CallOK(x)'
  <2>1. \A x \in open' : CallOK(x) /\ x.channel \in Channels
    BY <1>1 DEF IInv, TypeOK, Calls
  <2> QED  BY <1>1, <1>2, <2>1 DEF rows, CallOK
<1>4. TypeOK' /\ (~database' => open' = {}) /\ SoloOK'
  BY <1>1 DEF IInv, TypeOK, SoloOK, Patching, rows
<1>5. NewestOK' /\ AloneIsServed' /\ Isolated' /\ NoOrphans'
  BY <1>1 DEF IInv, rows, NewestOK, AloneIsServed, Isolated, NoOrphans, Newest, MemoriesOf
<1> QED  BY <1>3, <1>4, <1>5 DEF IInv

\* The rows there are to begin with.
LEMMA InitOK == Init => IInv
<1> SUFFICES ASSUME Init PROVE IInv
  OBVIOUS
<1>1. 0 \in MaybeTime
  BY CatalogModes DEF MaybeTime
<1>2. PICK owner \in [Channels -> Tenants] :
        channels = [c \in Channels |-> [state |-> IF database THEN "live" ELSE "absent",
                                        owner |-> owner[c], by |-> owner[c]]]
  BY DEF Init
<1>3. /\ channels \in [Channels -> ChannelRows]
      /\ \A c \in Channels : channels[c].by = channels[c].owner
  BY <1>2 DEF ChannelRows, States
<1>4. PICK of \in [Ideas -> Channels], s \in Statuses :
        ideas = [i \in Ideas |-> [state |-> "absent", channel |-> of[i], status |-> s,
                                  by |-> channels[of[i]].owner]]
  BY DEF Init
<1>5. /\ ideas \in [Ideas -> IdeaRows]
      /\ \A i \in Ideas : /\ ideas[i].state = "absent"
                         /\ ideas[i].by = channels[ideas[i].channel].owner
  <2>1. \A i \in Ideas : of[i] \in Channels /\ channels[of[i]].owner \in Tenants
    BY <1>3 DEF ChannelRows
  <2> QED  BY <1>4, <2>1 DEF IdeaRows, States
<1>6. TypeOK
  BY <1>1, <1>3, <1>5 DEF Init, TypeOK
<1>7. NewestOK /\ AloneIsServed /\ SoloOK
  BY DEF Init, NewestOK, AloneIsServed, SoloOK, MemoriesOf, Newest
<1> QED  BY <1>3, <1>5, <1>6, <1>7 DEF Init, IInv, Isolated, NoOrphans

\* Every step keeps the inductive invariant.
LEMMA StepKeeps == IInv /\ [Next]_vars => IInv'
BY HandleKeeps, BeginKeeps, CommitKeeps, RestKeeps DEF Next

\* The inductive invariant of Catalog.
THEOREM Invariant == Spec => []IInv
<1>1. Init => IInv
  BY InitOK
<1>2. IInv /\ [Next]_vars => IInv'
  BY StepKeeps
<1> QED  BY <1>1, <1>2, PTL DEF Spec

\* Type correctness of Catalog, in both modes.
THEOREM TypeCorrect == Spec => []TypeOK
<1>1. IInv => TypeOK
  BY DEF IInv
<1> QED  BY <1>1, Invariant, PTL

\* Checking the tenant once per request is enough: no tenant writes or is answered rows
\* of another one's channel.
THEOREM AlwaysIsolated == Spec => []Isolated
<1>1. IInv => Isolated
  BY DEF IInv
<1> QED  BY <1>1, Invariant, PTL

\* A PATCH of a memory that overlapped no other one is what is served from then on.
THEOREM AloneIsAlwaysServed == Spec => []AloneIsServed
<1>1. IInv => AloneIsServed
  BY DEF IInv
<1> QED  BY <1>1, Invariant, PTL

\* The checks made at commit leave no row behind that refers to a deleted one.
THEOREM NeverOrphans == Spec => []NoOrphans
<1>1. IInv => NoOrphans
  BY DEF IInv
<1> QED  BY <1>1, Invariant, PTL

=============================================================================
