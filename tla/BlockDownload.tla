----------------------------- MODULE BlockDownload -----------------------------
(***************************************************************************)
(* Fetching blocks from peers (net_processing.cpp): what every peer is     *)
(* believed to have, which block is in flight from which peer, the window  *)
(* that moves with the chain, stalling and time-outs, compact blocks, and  *)
(* peers that come and go.                                                 *)
(*                                                                         *)
(* One thread (ThreadMessageHandler) goes round the peers, handles at most *)
(* one message of each and then sends to it; the handler of a message      *)
(* releases cs_main between its parts, and each part is an action here.    *)
(* The socket thread removes peers and an RPC thread submits blocks in     *)
(* between.  Blocks are valid (BlockTree has the invalid ones); what a     *)
(* peer sends as the body of a block may not be.  One block is one unit of *)
(* work, time is counted in ticks, and a time stamp is kept as its age.    *)
(***************************************************************************)
EXTENDS Integers, Sequences, FiniteSets, FiniteSetsExt, Functions

CONSTANTS
    Peers,            \* NodeIds; one is never used twice
    Blocks,           \* every block of the tree, Genesis included
    Genesis,
    Parent,           \* pprev
    Tips,             \* the tips of the branches each peer has
    MaxUnasked,       \* messages of each peer that answer no request (bound)
    Submitted,        \* the blocks a submitblock RPC may bring
    PreferredPeers,   \* outbound or whitelisted peers that serve blocks
    Responsive,       \* peers that stay, and answer before a tick passes
    Window,           \* BLOCK_DOWNLOAD_WINDOW
    MaxInTransit,     \* MAX_BLOCKS_IN_TRANSIT_PER_PEER
    KeepBlocks,       \* MIN_BLOCKS_TO_KEEP
    StallTimeout,     \* BLOCK_STALLING_TIMEOUT
    TimeoutBase,      \* BLOCK_DOWNLOAD_TIMEOUT_BASE, in ticks
    TimeoutPerPeer,   \* BLOCK_DOWNLOAD_TIMEOUT_PER_PEER, in ticks
    None

(* The parents lead down to the genesis block from every block. *)
ASSUME DownloadAssumption ==
    /\ Genesis \in Blocks
    /\ Parent \in [Blocks \ {Genesis} -> Blocks]
    /\ \A S \in (SUBSET Blocks) \ {{}} : \E b \in S : b = Genesis \/ Parent[b] \notin S
    /\ IsFiniteSet(Peers) /\ Peers # {}
    /\ Tips \in [Peers -> SUBSET Blocks] /\ Submitted \subseteq Blocks
    /\ MaxUnasked \in [Peers -> Nat]
    /\ PreferredPeers \subseteq Peers /\ Responsive \subseteq Peers
    /\ {Window, MaxInTransit} \subseteq Nat \ {0}
    /\ {KeepBlocks, StallTimeout, TimeoutBase, TimeoutPerPeer} \subseteq Nat
    /\ None \notin Blocks \cup Peers

VARIABLES
    net,      \* mapNodeState, mapBlocksInFlight and the two counters
    chain,    \* mapBlockIndex, the blocks with data, the tip, initial download
    asked,    \* requests on the way to each peer, for blocks still in flight
    handler,  \* whose turn it is in the message handler, and where that turn is
    unasked,  \* how many messages each peer has sent unasked
    front     \* history: ticks since the first block of a queue became first

vars == <<net, chain, asked, handler, unasked, front>>

(* ages above the longest time-out are all alike *)
MaxAge == Max({StallTimeout,
               TimeoutBase + TimeoutPerPeer * (Cardinality(Peers) - 1)}) + 1

NoStall == -1

(***************************************************************************)
(* The tree                                                                *)
(***************************************************************************)
Branch[b \in Blocks] ==
    IF b = Genesis THEN <<b>> ELSE Append(Branch[Parent[b]], b)

Ancestors(b) == Range(Branch[b])
Height(b) == Len(Branch[b]) - 1
GetAncestor(b, height) == Branch[b][height + 1]

LastCommonAncestor(a, b) ==
    CHOOSE c \in Ancestors(a) \cap Ancestors(b) :
        \A d \in Ancestors(a) \cap Ancestors(b) : Height(d) <= Height(c)

Active == Ancestors(chain.tip)

(* nChainTx: every block down to the genesis block has its data *)
Linked(c, b) == Ancestors(b) \subseteq c.have

(***************************************************************************)
(* Bookkeeping of blocks in flight.  Every caller passes a block index     *)
(* entry, so fValidatedHeaders is TRUE and nBlocksInFlightValidHeaders and *)
(* nBlocksInFlight are the one number n.                                   *)
(***************************************************************************)
NoPeer ==
    [conn |-> "new", best |-> None, unknown |-> None, common |-> None,
     queue |-> <<>>, n |-> 0, since |-> MaxAge, stall |-> NoStall]

PositionOf(h, queue) == CHOOSE i \in DOMAIN queue : queue[i].hash = h

Erase(queue, i) ==
    [j \in 1..Len(queue) - 1 |-> IF j < i THEN queue[j] ELSE queue[j + 1]]

(* A peer's state once block h is off, or on, its list *)
Unlist(st, h) ==
    [st EXCEPT !.queue = Erase(@, PositionOf(h, @)),
               !.n = @ - 1,
               !.since = IF Head(st.queue).hash = h THEN 0 ELSE @,
               !.stall = NoStall]

List(st, h, compact) ==
    [st EXCEPT !.queue = Append(@, [hash |-> h, partial |-> compact]),
               !.n = @ + 1,
               !.since = IF st.n = 0 THEN 0 ELSE @]

(* The entry of block h gets a partial block *)
WithPartial(st, h) ==
    LET i == PositionOf(h, st.queue)
    IN [st EXCEPT !.queue = [st.queue EXCEPT ![i] = [hash |-> h, partial |-> TRUE]]]

(* Mutants of MarkBlockAsReceived *)
LeaveCounter(m, h) ==
    IF h \notin DOMAIN m.flight THEN m
    ELSE [m EXCEPT !.node[m.flight[h]] = Unlist(@, h),
                   !.flight = Restrict(@, DOMAIN @ \ {h})]
LeaveSince(m, h) ==
    IF h \notin DOMAIN m.flight THEN m
    ELSE LET p == m.flight[h]
         IN [m EXCEPT !.node[p] = [Unlist(@, h) EXCEPT !.since = m.node[p].since],
                      !.flight = Restrict(@, DOMAIN @ \ {h}),
                      !.nValidated = IF m.node[p].n = 1 THEN @ - 1 ELSE @]

MarkBlockAsReceived(m, h) ==
    IF h \notin DOMAIN m.flight THEN m
    ELSE LET p == m.flight[h]
         IN [m EXCEPT !.node[p] = Unlist(@, h),
                      !.flight = Restrict(@, DOMAIN @ \ {h}),
                      !.nValidated = IF m.node[p].n = 1 THEN @ - 1 ELSE @]

(* compact: the caller passes pit, and the entry gets a partial block.  In *)
(* flight from the same peer already, the call only hands out its entry.   *)
MarkBlockAsInFlight(m, p, h, compact) ==
    IF h \in DOMAIN m.flight /\ m.flight[h] = p THEN m
    ELSE LET r == MarkBlockAsReceived(m, h)
         IN [r EXCEPT !.node[p] = List(@, h, compact),
                      !.flight = [k \in DOMAIN @ \cup {h} |-> IF k = h THEN p ELSE @[k]],
                      !.nValidated = IF r.node[p].n = 0 THEN @ + 1 ELSE @]

(* Two calls that find which block a peer has: the last unknown hash it    *)
(* announced once its header arrives, and a newly announced hash.          *)
ProcessBlockAvailability(st, index) ==
    IF st.unknown \in index
    THEN [st EXCEPT !.best = IF \/ @ = None
                                \/ Height(st.unknown) >= Height(@)
                             THEN st.unknown ELSE @,
                    !.unknown = None]
    ELSE st

UpdateBlockAvailability(st, index, h) ==
    LET up == ProcessBlockAvailability(st, index)
    IN IF h \notin index THEN [up EXCEPT !.unknown = h]
       ELSE [up EXCEPT !.best = IF @ = None \/ Height(h) >= Height(@) THEN h ELSE @]

(***************************************************************************)
(* FindNextBlocksToDownload: the blocks towards the peer's best block that *)
(* are neither stored nor in flight, at most count and not beyond the      *)
(* window; staller is the peer that keeps the window from moving.          *)
(***************************************************************************)

Fetch(c, m, p, windowEnd, count, acc, b) ==
    CASE acc.done -> acc
      [] ~acc.done /\ b \in c.have ->
            IF Linked(c, b) THEN [acc EXCEPT !.common = b] ELSE acc
      [] ~acc.done /\ b \notin c.have \cup DOMAIN m.flight ->
            IF Height(b) > windowEnd
            THEN [acc EXCEPT !.done = TRUE,
                             !.staller = IF acc.blocks = <<>> /\ acc.waiting # p
                                         THEN acc.waiting ELSE None]
            ELSE [acc EXCEPT !.blocks = Append(@, b),
                             !.done = Len(acc.blocks) + 1 = count]
      [] OTHER -> [acc EXCEPT !.waiting = IF @ = None THEN m.flight[b] ELSE @]

(* The states of the walk over the blocks ahead *)
Walk(c, m, p, windowEnd, count, start, ahead) ==
    LET acc[i \in 0..Len(ahead)] ==
            IF i = 0 THEN start
            ELSE Fetch(c, m, p, windowEnd, count, acc[i - 1], ahead[i])
    IN acc

FindNextBlocksToDownload(c, m, p, count) ==
    LET st == ProcessBlockAvailability(m.node[p], c.index)
        Nothing(common) == [common |-> common, blocks |-> <<>>, waiting |-> None,
                            staller |-> None, done |-> FALSE]
        guess == IF st.common = None
                 THEN GetAncestor(c.tip, Min({Height(st.best), Height(c.tip)}))
                 ELSE st.common
        ancestor == LastCommonAncestor(guess, st.best)
        windowEnd == Height(ancestor) + Window
        maxHeight == Min({Height(st.best), windowEnd + 1})
        ahead == SubSeq(Branch[st.best], Height(ancestor) + 2, maxHeight + 1)
    IN IF st.best = None \/ (st.best # None /\ Height(st.best) < Height(c.tip))
       THEN Nothing(st.common)
       ELSE Walk(c, m, p, windowEnd, count, Nothing(ancestor), ahead)[Len(ahead)]

(* Mark a list of blocks in flight from p, one after the other *)
Marking(m, p, blocks) ==
    LET acc[i \in 0..Len(blocks)] ==
            IF i = 0 THEN m ELSE MarkBlockAsInFlight(acc[i - 1], p, blocks[i], FALSE)
    IN acc

MarkAll(m, p, blocks) == Marking(m, p, blocks)[Len(blocks)]

(* A request is of interest as long as its block is in flight from the peer *)
Outstanding(a, m) ==
    [p \in Peers |-> {r \in a[p] : r.hash \in DOMAIN m.flight /\ m.flight[r.hash] = p}]

Request(kind, h) == [kind |-> kind, hash |-> h]

(***************************************************************************)
(* ProcessNewBlock: CheckBlock on the body, AcceptBlock with its early     *)
(* returns, then the best chain the stored blocks allow.                   *)
(***************************************************************************)
BestTips(c) ==
    LET linked == {b \in c.have : Linked(c, b)}
        best == {b \in linked : \A d \in linked : Height(d) <= Height(b)}
    IN IF c.tip \in best THEN {c.tip} ELSE best

AcceptBlock(c, h, requested) ==
    LET indexed == [c EXCEPT !.index = @ \cup {h}]
    IN IF \/ h \in c.have
          \/ ~requested /\ Height(h) <= Height(c.tip)
          \/ ~requested /\ Height(h) > Height(c.tip) + KeepBlocks
       THEN indexed
       ELSE [indexed EXCEPT !.have = @ \cup {h}]

ProcessNewBlock(c, h, requested, bodyOK) ==
    IF ~bodyOK \/ h = Genesis \/ (h # Genesis /\ Parent[h] \notin c.index) THEN {c}
    ELSE LET accepted == AcceptBlock(c, h, requested)
         IN {[accepted EXCEPT !.tip = t] : t \in BestTips(accepted)}

(***************************************************************************)
(* The state                                                               *)
(***************************************************************************)
Order == CHOOSE s \in [1..Cardinality(Peers) -> Peers] : Range(s) = Peers
NextPeer(p) ==
    LET i == CHOOSE j \in DOMAIN Order : Order[j] = p
    IN Order[(i % Len(Order)) + 1]

AtPart(part, p, h) == [at |-> part, peer |-> p, hash |-> h, forced |-> FALSE, clear |-> FALSE]
TurnOf(p) == AtPart("message", p, None)
ThenSend == handler' = AtPart("send", handler.peer, None)

(* ProcessNewBlock is the next part of the handler.  A block rebuilt from  *)
(* a compact block is always forced; clear: it is listed for someone else  *)
(* and is unlisted once it is stored.                                      *)
ThenProcess(p, h, forced) == [AtPart("process", p, h) EXCEPT !.forced = forced]
ThenRebuilt(p, h, clear) ==
    [AtPart("rebuilt", p, h) EXCEPT !.forced = TRUE, !.clear = clear]

Init ==
    /\ net = [node |-> [p \in Peers |-> NoPeer], flight |-> <<>>,
              nValidated |-> 0, nPreferred |-> 0]
    /\ chain = [index |-> {Genesis}, have |-> {Genesis}, tip |-> Genesis, ibd |-> TRUE]
    /\ asked = [p \in Peers |-> {}]
    /\ handler = TurnOf(Order[1])
    /\ unasked = [p \in Peers |-> 0]
    /\ front = [p \in Peers |-> 0]

Open(p) == net.node[p].conn = "open"

(* The handler may take up a message of p *)
Free(p) == handler = TurnOf(p) /\ Open(p)

(* net becomes m, and the requests of a are added to those of p *)
NetBecomes(m, p, a) ==
    /\ net' = m
    /\ asked' = Outstanding([asked EXCEPT ![p] = @ \cup a], m)

(* How long the first block of every queue has been first *)
FrontAge(p, elapsed) ==
    LET was == net.node[p].queue
        is == net'.node[p].queue
    IN IF is # <<>> /\ was # <<>> /\ Head(is).hash = Head(was).hash
       THEN Min({front[p] + elapsed, MaxAge}) ELSE 0

(***************************************************************************)
(* Peers come and go.  A peer's state is dropped by the socket thread, not *)
(* while the handler works for that peer (it holds a reference).           *)
(***************************************************************************)
InitializeNode(p) ==
    /\ net.node[p].conn = "new"
    /\ net' = [net EXCEPT !.node[p].conn = "open",
                          !.nPreferred = IF p \in PreferredPeers THEN @ + 1 ELSE @]
    /\ UNCHANGED <<chain, asked, handler>>

PeerCloses(p) ==
    /\ Open(p) /\ p \notin Responsive
    /\ net' = [net EXCEPT !.node[p].conn = "closing"]
    /\ UNCHANGED <<chain, asked, handler>>

FinalizeNode(p) ==
    /\ net.node[p].conn = "closing" /\ (handler.peer # p \/ handler.at = "message")
    /\ LET mine == {e.hash : e \in Range(net.node[p].queue)}
           m == [net EXCEPT
                    !.node[p] = [NoPeer EXCEPT !.conn = "gone"],
                    !.flight = Restrict(@, DOMAIN @ \ mine),
                    !.nPreferred = IF p \in PreferredPeers THEN @ - 1 ELSE @,
                    !.nValidated = IF net.node[p].n # 0 THEN @ - 1 ELSE @]
       IN NetBecomes(m, p, {})
    /\ UNCHANGED <<chain, handler>>

(***************************************************************************)
(* Messages                                                                *)
(***************************************************************************)
RecvInv(p, h) ==
    /\ Free(p)
    /\ net' = [net EXCEPT !.node[p] = UpdateBlockAvailability(@, chain.index, h)]
    /\ ThenSend
    /\ UNCHANGED <<chain, asked>>

(* The headers from first to last of one branch.  Headers that do not      *)
(* connect are only remembered; others are stored, and the blocks may be   *)
(* fetched directly in the next part.                                      *)
RecvHeaders(p, first, last) ==
    /\ Free(p) /\ first # Genesis /\ first \in Ancestors(last)
    /\ IF Parent[first] \notin chain.index
       THEN /\ net' = [net EXCEPT !.node[p] = UpdateBlockAvailability(@, chain.index, last)]
            /\ ThenSend
            /\ UNCHANGED chain
       ELSE /\ chain' = [chain EXCEPT !.index = @ \cup Ancestors(last)]
            /\ handler' = AtPart("headers", p, last)
            /\ UNCHANGED net
    /\ UNCHANGED asked

(* The blocks down to the active chain that are neither stored nor in      *)
(* flight, lowest first; the walk gives up above MaxInTransit of them.     *)
Fetched(above, b) ==
    IF b \in Active \cup chain.have \cup DOMAIN net.flight \/ Len(above) > MaxInTransit
    THEN above ELSE <<b>> \o above

ToFetch(last) ==
    LET vToFetch[i \in 0..Len(Branch[last])] ==
            IF i = Len(Branch[last]) THEN <<>>
            ELSE Fetched(vToFetch[i + 1], Branch[last][i + 1])
    IN vToFetch

DirectFetch(last) ==
    LET missing == ToFetch(last)[0]
    IN IF Len(missing) <= MaxInTransit \/ Parent[Head(missing)] \in Active
       THEN missing ELSE <<>>

HeadersFetch(canDirectFetch) ==
    /\ handler.at = "headers"
    /\ LET p == handler.peer
           last == handler.hash
           m == [net EXCEPT !.node[p] = UpdateBlockAvailability(@, chain.index, last)]
           room == MaxInTransit - m.node[p].n
           walk == IF canDirectFetch /\ Height(chain.tip) <= Height(last)
                   THEN DirectFetch(last) ELSE <<>>
           blocks == SubSeq(walk, 1, Min({room, Len(walk)}))
           marked == MarkAll(m, p, blocks)
           single == Len(blocks) = 1 /\ Cardinality(DOMAIN marked.flight) = 1
       IN \E kind \in IF single THEN {"block", "cmpctblock"} ELSE {"block"} :
            NetBecomes(marked, p, {Request(kind, b) : b \in Range(blocks)})
    /\ ThenSend
    /\ UNCHANGED chain

(* A body that fails its checks costs the peer its connection (the score   *)
(* of a peer and whitelisting are not modelled).                           *)
RecvBlock(p, h) ==
    /\ Free(p)
    /\ NetBecomes(MarkBlockAsReceived(net, h), p, {})
    /\ handler' = ThenProcess(p, h, h \in DOMAIN net.flight)
    /\ UNCHANGED chain

ProcessBlock(bodyOK) ==
    /\ handler.at = "process"
    /\ bodyOK \/ handler.peer \notin Responsive
    /\ chain' \in ProcessNewBlock(chain, handler.hash, handler.forced, bodyOK)
    /\ net' = IF bodyOK THEN net ELSE [net EXCEPT !.node[handler.peer].conn = "closing"]
    /\ ThenSend
    /\ UNCHANGED asked

ProcessRebuilt ==
    /\ handler.at = "rebuilt"
    /\ chain' \in ProcessNewBlock(chain, handler.hash, handler.forced, TRUE)
    /\ NetBecomes(IF handler.clear /\ handler.hash \in chain'.have
                  THEN MarkBlockAsReceived(net, handler.hash) ELSE net, handler.peer, {})
    /\ ThenSend

(* A compact block: its header first, then what can be done with it. *)
RecvCmpctBlock(p, h) ==
    /\ Free(p) /\ h # Genesis /\ Parent[h] \in chain.index
    /\ chain' = [chain EXCEPT !.index = @ \cup {h}]
    /\ asked' = [asked EXCEPT ![p] = @ \ {Request("cmpctblock", h)}]
    /\ handler' = AtPart("cmpctblock", p, h)
    /\ UNCHANGED net

(* What InitData and the transactions at hand make of it *)
Statuses(p) == {"failed", "missing", "full"} \cup
               (IF p \in Responsive THEN {} ELSE {"invalid"})

Misbehaving(m, p) == [m EXCEPT !.node[p].conn = "closing"]

CmpctBlock(canDirectFetch, status) ==
    /\ handler.at = "cmpctblock"
    /\ LET p == handler.peer
           h == handler.hash
           m == [net EXCEPT !.node[p] = UpdateBlockAvailability(@, chain.index, h)]
           inFlight == h \in DOMAIN m.flight
           mine == inFlight /\ m.flight[h] = p
           partial == mine /\ m.node[p].queue[PositionOf(h, m.node[p].queue)].partial
           near == Height(h) <= Height(chain.tip) + 2
           listed == LET l == MarkBlockAsInFlight(m, p, h, TRUE)
                     IN [l EXCEPT !.node[p] = WithPartial(@, h)]
           Leave == NetBecomes(m, p, {}) /\ ThenSend
           Getdata == NetBecomes(m, p, {Request("block", h)}) /\ ThenSend
       IN CASE h \in chain.have -> Leave
            [] h \notin chain.have /\ Height(h) <= Height(chain.tip) ->
                    IF inFlight THEN Getdata ELSE Leave
            [] OTHER ->
                 IF ~inFlight /\ ~canDirectFetch THEN Leave
                 ELSE IF ~near /\ inFlight THEN Getdata
                 ELSE IF ~near THEN /\ NetBecomes(m, p, {})
                                    /\ handler' = AtPart("headers", p, h)
                 ELSE IF mine \/ (~inFlight /\ m.node[p].n < MaxInTransit) THEN
                    IF partial THEN Leave
                    ELSE CASE status = "invalid" ->
                                /\ NetBecomes(Misbehaving(MarkBlockAsReceived(listed, h), p), p, {})
                                /\ ThenSend
                           [] status = "failed" ->
                                NetBecomes(listed, p, {Request("block", h)}) /\ ThenSend
                           [] status = "missing" ->
                                NetBecomes(listed, p, {Request("blocktxn", h)}) /\ ThenSend
                           [] status = "full" ->
                                NetBecomes(listed, p, {}) /\ handler' = AtPart("blocktxn", p, h)
                 ELSE /\ NetBecomes(m, p, {})
                      /\ IF status = "full" THEN handler' = ThenRebuilt(p, h, TRUE) ELSE ThenSend
    /\ status \in Statuses(handler.peer)
    /\ UNCHANGED chain

(* The transactions asked for; FillBlock completes the block or fails.  A  *)
(* message nobody expects is dropped.                                      *)
Expected(p, h) ==
    /\ h \in DOMAIN net.flight /\ net.flight[h] = p
    /\ net.node[p].queue[PositionOf(h, net.node[p].queue)].partial

RecvBlockTxn(p, h) ==
    /\ Free(p) /\ Expected(p, h)
    /\ p \in Responsive => Request("blocktxn", h) \in asked[p]
    /\ asked' = [asked EXCEPT ![p] = @ \ {Request("blocktxn", h)}]
    /\ handler' = AtPart("blocktxn", p, h)
    /\ UNCHANGED <<net, chain>>

(* Mutant: a block that could not be filled is not asked for in full *)
NoFallback(status) ==
    /\ handler.at = "blocktxn"
    /\ status \in Statuses(handler.peer) \ {"missing"}
    /\ LET p == handler.peer
           h == handler.hash
       IN CASE ~Expected(p, h) -> UNCHANGED <<net, asked>> /\ ThenSend
            [] Expected(p, h) /\ status = "invalid" ->
                    /\ NetBecomes(Misbehaving(MarkBlockAsReceived(net, h), p), p, {})
                    /\ ThenSend
            [] Expected(p, h) /\ status = "failed" ->
                    NetBecomes(net, p, {}) /\ ThenSend
            [] OTHER ->
                    /\ NetBecomes(MarkBlockAsReceived(net, h), p, {})
                    /\ handler' = ThenRebuilt(p, h, FALSE)
    /\ UNCHANGED chain

BlockTxn(status) ==
    /\ handler.at = "blocktxn"
    /\ status \in Statuses(handler.peer) \ {"missing"}
    /\ LET p == handler.peer
           h == handler.hash
       IN CASE ~Expected(p, h) -> UNCHANGED <<net, asked>> /\ ThenSend
            [] Expected(p, h) /\ status = "invalid" ->
                    /\ NetBecomes(Misbehaving(MarkBlockAsReceived(net, h), p), p, {})
                    /\ ThenSend
            [] Expected(p, h) /\ status = "failed" ->
                    NetBecomes(net, p, {Request("block", h)}) /\ ThenSend
            [] OTHER ->
                    /\ NetBecomes(MarkBlockAsReceived(net, h), p, {})
                    /\ handler' = ThenRebuilt(p, h, FALSE)
    /\ UNCHANGED chain

(***************************************************************************)
(* SendMessages: disconnect a peer that stalls the window or takes too     *)
(* long, or ask it for more blocks.  A peer that is not connected, or is   *)
(* about to be disconnected, is passed over.                               *)
(***************************************************************************)
(* Mutant: only blocks at the end of the window are waited for *)
TimedOutStalling(st) == st.stall # NoStall /\ st.since > TimeoutBase

TimedOut(st) ==
    LET others == net.nValidated - (IF st.n > 0 THEN 1 ELSE 0)
    IN st.queue # <<>> /\ st.since > TimeoutBase + TimeoutPerPeer * others

NoMessage ==
    /\ Free(handler.peer)
    /\ handler.peer \in Responsive => asked[handler.peer] = {}
    /\ ThenSend
    /\ UNCHANGED <<net, chain, asked>>

PassOver ==
    /\ handler.at \in {"message", "send"} /\ ~Open(handler.peer)
    /\ handler' = TurnOf(NextPeer(handler.peer))
    /\ UNCHANGED <<net, chain, asked>>

SendMessages(p) ==
    /\ handler.at = "send" /\ handler.peer = p /\ Open(p)
    /\ LET st == ProcessBlockAvailability(net.node[p], chain.index)
           m == [net EXCEPT !.node[p] = st]
           fFetch == p \in PreferredPeers \/ net.nPreferred = 0
           found == FindNextBlocksToDownload(chain, m, p, MaxInTransit - st.n)
           marked == MarkAll([m EXCEPT !.node[p].common = found.common], p, found.blocks)
           stalls == marked.node[p].n = 0 /\ found.staller # None
       IN IF st.stall > StallTimeout \/ TimedOut(st)
          THEN NetBecomes([m EXCEPT !.node[p].conn = "closing"], p, {})
          ELSE IF (fFetch \/ ~chain.ibd) /\ st.n < MaxInTransit
          THEN NetBecomes(IF stalls /\ marked.node[found.staller].stall = NoStall
                          THEN [marked EXCEPT !.node[found.staller].stall = 0] ELSE marked,
                          p, {Request("block", b) : b \in Range(found.blocks)})
          ELSE NetBecomes(m, p, {})
    /\ handler' = TurnOf(NextPeer(p))
    /\ UNCHANGED chain

(***************************************************************************)
(* The rest of the program, and time                                       *)
(***************************************************************************)
SubmitBlock(h) ==
    /\ h \notin chain.have
    /\ chain' \in ProcessNewBlock(chain, h, TRUE, TRUE)
    /\ UNCHANGED <<net, asked, handler>>

(* once the tip is recent; the genesis block is not *)
LeaveInitialBlockDownload ==
    /\ chain.ibd /\ chain.tip # Genesis
    /\ chain' = [chain EXCEPT !.ibd = FALSE]
    /\ UNCHANGED <<net, asked, handler>>

Hashes(p) == {e.hash : e \in Range(net.node[p].queue)}

(* A peer's time stamps a tick later *)
Older(st) ==
    [st EXCEPT !.since = IF st.n = 0 THEN @ ELSE Min({@ + 1, MaxAge}),
               !.stall = IF @ = NoStall THEN @ ELSE Min({@ + 1, MaxAge})]

(* The clock moves when nothing a responsive peer owes is outstanding *)
Tick ==
    /\ \A p \in Responsive : asked[p] = {} /\ Hashes(p) \subseteq chain.have
    /\ \E p \in Peers : net.node[p].queue # <<>>
    /\ net' = [net EXCEPT !.node = [p \in Peers |-> Older(net.node[p])]]
    /\ UNCHANGED <<chain, asked, handler>>

(* A peer answers a request *)
Answer(p) ==
    /\ \E h \in Blocks :
        \/ Request("block", h) \in asked[p] /\ RecvBlock(p, h)
        \/ Request("cmpctblock", h) \in asked[p] /\ RecvCmpctBlock(p, h)
        \/ Request("blocktxn", h) \in asked[p] /\ RecvBlockTxn(p, h)
    /\ UNCHANGED unasked

(* It announces its tips, and may send a block nobody asked it for *)
Unasked(p) ==
    /\ unasked[p] < MaxUnasked[p]
    /\ \E tip \in Tips[p] :
        \/ RecvInv(p, tip)
        \/ \E h \in Ancestors(tip) : \/ RecvHeaders(p, h, tip)
                                    \/ RecvBlock(p, h)
                                    \/ RecvCmpctBlock(p, h)
                                    \/ RecvBlockTxn(p, h)
    /\ unasked' = [unasked EXCEPT ![p] = @ + 1]

(* The history variable after an action during which time has passed *)
Aged(elapsed) == front' = [p \in Peers |-> FrontAge(p, elapsed)]
Quiet == Aged(0) /\ UNCHANGED unasked

Next ==
    \/ NoMessage /\ Quiet
    \/ PassOver /\ Quiet
    \/ ProcessRebuilt /\ Quiet
    \/ LeaveInitialBlockDownload /\ Quiet
    \/ Tick /\ Aged(1) /\ UNCHANGED unasked
    \/ \E h \in Submitted : SubmitBlock(h) /\ Quiet
    \/ \E ok \in BOOLEAN : (HeadersFetch(ok) \/ ProcessBlock(ok)) /\ Quiet
    \/ \E status \in {"invalid", "failed", "missing", "full"} :
            (BlockTxn(status) \/ \E ok \in BOOLEAN : CmpctBlock(ok, status)) /\ Quiet
    \/ \E p \in Peers : \/ /\ \/ InitializeNode(p) \/ PeerCloses(p)
                              \/ FinalizeNode(p) \/ SendMessages(p)
                           /\ Quiet
                        \/ (Answer(p) \/ Unasked(p)) /\ Aged(0)

Spec == Init /\ [][Next]_vars

(* The handler thread goes round and round, the socket thread removes what *)
(* is closing, and the clock runs.                                         *)
Fairness ==
    /\ []<><<handler'.peer # handler.peer>>_vars
    /\ WF_vars(Tick /\ Aged(1) /\ UNCHANGED unasked)
    /\ \A p \in Peers : WF_vars(FinalizeNode(p) /\ Quiet)

FairSpec == Spec /\ Fairness

(***************************************************************************)
(* Properties                                                              *)
(***************************************************************************)
PeerState ==
    [conn : {"new", "open", "closing", "gone"},
     best : Blocks \cup {None}, unknown : Blocks \cup {None}, common : Blocks \cup {None},
     queue : Seq([hash : Blocks, partial : BOOLEAN]), n : 0..MaxInTransit,
     since : 0..MaxAge, stall : NoStall..MaxAge]

(* The shape of the state; n is within MAX_BLOCKS_IN_TRANSIT_PER_PEER. *)
TypeOK ==
    /\ net.node \in [Peers -> PeerState]
    /\ DOMAIN net.flight \subseteq Blocks /\ Range(net.flight) \subseteq Peers
    /\ net.nValidated \in Int /\ net.nPreferred \in Int
    /\ chain.have \subseteq chain.index /\ chain.index \subseteq Blocks
    /\ chain.tip \in chain.have /\ chain.ibd \in BOOLEAN
    /\ \A p \in Peers : asked[p] \subseteq
            {Request(k, h) : k \in {"block", "cmpctblock", "blocktxn"}, h \in Blocks}
    /\ front \in [Peers -> 0..MaxAge]

(* mapBlocksInFlight and the peers' lists say the same, a block is in      *)
(* flight from one peer at most, and the counters count: the peers with    *)
(* blocks in flight are nPeersWithValidatedDownloads, so the last peer to  *)
(* go leaves everything at zero (the assertions of FinalizeNode), and,     *)
(* however blocks get into flight, no peer has more of them than           *)
(* MAX_BLOCKS_IN_TRANSIT_PER_PEER (TypeOK).                                *)
FlightMatchesQueues ==
    /\ TypeOK
    /\ \A p \in Peers : /\ Hashes(p) = {h \in DOMAIN net.flight : net.flight[h] = p}
                        /\ Cardinality(Hashes(p)) = Len(net.node[p].queue)
                        /\ net.node[p].n = Len(net.node[p].queue)
    /\ net.nValidated = Cardinality({p \in Peers : net.node[p].queue # <<>>})
    /\ net.nPreferred = Cardinality({p \in PreferredPeers :
                                        net.node[p].conn \in {"open", "closing"}})

(* A block in flight from a peer has been asked for from that peer, and    *)
(* the answer is still to come, or the handler is about to deal with it:   *)
(* no block is waited for that nobody is going to send.  The exception is  *)
(* a block that submitblock has brought meanwhile: when it does so while   *)
(* the compact block is on the way, the answer finds "Nothing to do here"  *)
(* and the block stays listed.                                             *)
InFlightIsAsked ==
    \A h \in DOMAIN net.flight \ (chain.have \cap Submitted) :
        \/ \E r \in asked[net.flight[h]] : r.hash = h
        \/ handler.peer = net.flight[h] /\ handler.hash = h

(* SendMessages disconnects a peer only when it keeps the window from      *)
(* moving and owes a block, or when the block it has to send first has     *)
(* been first for longer than the base time-out.                           *)
DisconnectIsDeserved ==
    [][\A p \in Peers :
            SendMessages(p) /\ net'.node[p].conn = "closing"
            => \/ net.node[p].stall > StallTimeout /\ net.node[p].queue # <<>>
               \/ front[p] > TimeoutBase
      ]_vars

(* A block that a responsive peer announces is not lost on the way: again  *)
(* and again the chain is as high as the best block that peer announced,   *)
(* however other peers stall, close or send bodies that fail.              *)
CatchesUp ==
    \A p \in Responsive \cap PreferredPeers :
        []<>(net.node[p].best = None \/ Height(chain.tip) >= Height(net.node[p].best))

================================================================================
