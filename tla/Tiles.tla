------------------------------- MODULE Tiles -------------------------------
(***************************************************************************)
(* The way of a tile from the document to the browser: the Kit's queue of  *)
(* requests and invalidations (common/MessageQueue.cpp), its renderer and  *)
(* delta generator (common/RenderTiles.hpp, kit/Delta.hpp), the broker's   *)
(* TileCache (wsd/TileCache.{hpp,cpp}) and tile handlers                   *)
(* (wsd/DocumentBroker.cpp), and the sessions that ask for tiles and       *)
(* account for what they sent (wsd/ClientSession.{hpp,cpp}).               *)
(*                                                                         *)
(* Two processes, Kit and wsd, each with one thread for all of this, and   *)
(* two FIFO channels between them; so a handler is a step.  All tiles are  *)
(* of one part, one zoom level and one row, at most 16 columns apart, and  *)
(* all sessions render alike (one canonical view id) and see every column: *)
(* a tile is a column and an edit mode.  A picture is the tile and the     *)
(* number of edits that it shows.                                          *)
(***************************************************************************)
EXTENDS Integers, Sequences, SequencesExt

CONSTANTS
    Sessions,      \* client sessions
    Columns,       \* the columns of tiles, as integers
    Areas,         \* the first and the last column of what edits change
    Modes,         \* edit modes (of an Impress document)
    ModeOf,        \* _clientSelectedMode of each session
    OnFlyLimit,    \* getTilesOnFlyUpperLimit()
    Faults,        \* "trim", "evict": what a shortage of memory may do; "late":
                   \* clients or renderings may be slow; "drop": browsers may
                   \* garbage-collect tiles
    MaxEdits,      \* bound: edits ever made
    MaxRequests,   \* bound: requests that browsers ever make
    MaxFaults      \* bound: how often memory is short or something takes too long

ASSUME TilesAssumption ==
    /\ Columns \subseteq Int
    /\ Areas \subseteq Int \X Int
    /\ ModeOf \in [Sessions -> Modes]
    /\ OnFlyLimit \in Nat \ {0}
    /\ Faults \subseteq {"trim", "evict", "late", "drop"}
    /\ MaxEdits \in Nat
    /\ MaxRequests \in Nat
    /\ MaxFaults \in Nat

(* What identifies a tile: TileDescCacheCompareEq.                         *)
Tiles == Columns \X Modes
Visible(s) == Columns \X {ModeOf[s]}

NoPicture == <<>>
Garbage == <<<<>>, 0>>
Nothing == [pic |-> NoPicture, wid |-> 0]

NotCached == [valid |-> FALSE, deltas |-> <<>>, key |-> 0]
NotRendering == [ver |-> 0, subscribers |-> {}]

VARIABLES
    doc,       \* the number of edits that each tile would show if painted now
    queue,     \* TileQueue: the tile requests
    callbacks, \* TileQueue: the INVALIDATE_TILES callbacks
    nextWid,   \* RenderTiles::getCurrentWireId()
    entries,   \* DeltaGenerator::_deltaEntries: the last picture of each location
    toKit,     \* the tilecombine messages on the way to the Kit
    toWsd,     \* the Kit's messages on their way
    wsd,       \* the broker and its sessions, as below
    wire,      \* the tile messages on their way to each browser
    shown,     \* the picture that each browser has of each tile, and its wire id
    due,       \* history: the picture each browser has once it processed what was sent
    fetch,     \* _fetchKeyframeQueue of each browser
    asked,     \* history: the tiles each browser found missing, and kept since
    edits,     \* history: edits made
    requests,  \* history: requests of browsers
    faults     \* history: how often memory was short or something took too long

kitVars == <<doc, queue, callbacks, nextWid, entries>>
vars == <<kitVars, toKit, toWsd, wsd, wire, shown, due, fetch, asked, edits, requests, faults>>

(* wsd.version    _tileVersion                                             *)
(* wsd.cache      TileCache::_cache: valid, the keyframe and its deltas    *)
(*                with their wire ids, and the wire id in the key          *)
(* wsd.rendering  TileCache::_tilesBeingRendered                           *)
(* wsd.last       the wire id last sent: ClientSession::_tracker           *)
(* wsd.requested  ClientSession::_requestedTiles                           *)
(* wsd.onFly      ClientSession::_tilesOnFly                               *)
(* wsd.out        ClientSession::_senderQueue: its tile messages           *)
(* wsd.combine    the tilecombine messages this step sends to the Kit      *)
Init ==
    /\ doc = [t \in Tiles |-> 0]
    /\ queue = <<>> /\ callbacks = <<>> /\ nextWid = 0
    /\ entries = [c \in Columns |-> NoPicture]
    /\ toKit = <<>> /\ toWsd = <<>>
    /\ wsd = [version   |-> 0,
              cache     |-> [t \in Tiles |-> NotCached],
              rendering |-> [t \in Tiles |-> NotRendering],
              last      |-> [s \in Sessions |-> [t \in Tiles |-> 0]],
              requested |-> [s \in Sessions |-> <<>>],
              onFly     |-> [s \in Sessions |-> <<>>],
              out       |-> [s \in Sessions |-> <<>>],
              combine   |-> <<>>]
    /\ wire = [s \in Sessions |-> <<>>]
    /\ shown = [s \in Sessions |-> [t \in Tiles |-> Nothing]]
    /\ due = [s \in Sessions |-> [t \in Tiles |-> NoPicture]]
    /\ fetch = [s \in Sessions |-> {}] /\ asked = [s \in Sessions |-> {}]
    /\ edits = 0 /\ requests = 0 /\ faults = 0

(* A fault that the rest has to cope with, and the count of them.         *)
MayFail(f) == f \in Faults /\ faults < MaxFaults
Fails(b) == faults' = faults + IF b THEN 1 ELSE 0

----------------------------------------------------------------------------
(* The Kit's queue.                                                        *)

(* Mutant of SameRequest: the position is not compared.                    *)
SamePicture(q, r) == q.old = r.old

(* removeTileDuplicate(): requests are compared up to " ver", and the mode *)
(* comes after it.                                                         *)
SameRequest(q, r) == q.tile[1] = r.tile[1] /\ q.old = r.old

(* put_impl() of a tilecombine.                                            *)
PutTile(q, r) == Append(RemoveFirstMatch(q, LAMBDA x : SameRequest(x, r)), r)
PutTiles(q, rs) == FoldLeft(PutTile, q, rs)

(* An invalidation is the rectangle from column lo to column hi.           *)
Covers(i, j) == i.mode = j.mode /\ i.lo <= j.lo /\ j.hi <= i.hi
Touch(i, j) == i.mode = j.mode /\ i.lo <= j.hi + 1 /\ j.lo <= i.hi + 1
Least(a, b) == IF a < b THEN a ELSE b
Greatest(a, b) == IF a < b THEN b ELSE a
Join(i, j) == [mode |-> i.mode, lo |-> Least(i.lo, j.lo), hi |-> Greatest(i.hi, j.hi)]

(* A join may be four columns wide, and no more.                           *)
Small(i) == i.hi - i.lo + 1 <= 4

(* removeCallbackDuplicate(), INVALIDATE_TILES: one look at each queued    *)
(* invalidation, with the message growing as it joins them.                *)
Absorbs(i, j) == Covers(i, j) \/ (Touch(i, j) /\ Small(Join(i, j)))
Absorb(acc, j) ==
    IF Absorbs(acc.msg, j) THEN [acc EXCEPT !.msg = Join(acc.msg, j)]
                           ELSE [acc EXCEPT !.rest = Append(@, j)]
PutInvalidation(q, i) ==
    LET acc == FoldLeft(Absorb, [msg |-> i, rest |-> <<>>], q)
    IN  Append(acc.rest, acc.msg)

(* drainQueue() pops until the queue is empty.  get_impl() combines all    *)
(* requests of one mode, and of two for the same tile keeps the one first  *)
(* in the queue.                                                           *)
FirstOf(q) == {i \in DOMAIN q : \A j \in 1..(i - 1) : q[j].tile # q[i].tile}
Combined(q, m) ==
    SelectSeq([i \in DOMAIN q |-> [q[i] EXCEPT !.ver = IF i \in FirstOf(q) THEN @ ELSE 0]],
              LAMBDA r : r.tile[2] = m /\ r.ver # 0)

----------------------------------------------------------------------------
(* Rendering.                                                              *)

(* Mutant of Location: the column does not tell pictures apart.            *)
SomeLocation(t) == CHOOSE c \in Columns : TRUE

(* TileLocation: where the last picture is kept.                           *)
Location(t) == t[1]

(* createDelta() and compressOrDelta(): a delta from the last picture of   *)
(* the location, unless there is none or a keyframe is forced.             *)
Render(acc, r) ==
    LET loc == Location(r.tile)
        pic == <<r.tile, doc[r.tile]>>
        wid == acc.wid + 1
        from == IF r.old = 0 THEN NoPicture ELSE acc.entries[loc]
    IN  [wid |-> wid,
         entries |-> [acc.entries EXCEPT ![loc] = pic],
         done |-> Append(acc.done, [tile |-> r.tile, ver |-> r.ver, wid |-> wid,
                                    from |-> from, to |-> pic])]

(* doRender(): one response for a tilecombine.                             *)
DoRender(acc, rs) ==
    LET res == FoldLeft(Render, [wid |-> acc.wid, entries |-> acc.entries, done |-> <<>>], rs)
    IN  [wid |-> res.wid, entries |-> res.entries,
         sent |-> IF rs = <<>> THEN acc.sent
                  ELSE Append(acc.sent, [type |-> "tiles", tiles |-> res.done])]

(* The callbacks that drainQueue() hands to every session of the Kit, in   *)
(* the order of its map.                                                   *)
Broadcast(acc, i) ==
    acc \o [n \in 1..Len(SetToSeq(Sessions)) |->
               [type |-> "invalidate", s |-> SetToSeq(Sessions)[n], rect |-> i]]

(* drainQueue(): all callbacks go out, then the requests are rendered, in  *)
(* an order of the tilecombines that depends on the visible areas.         *)
DrainQueue ==
    /\ queue # <<>> \/ callbacks # <<>>
    /\ \E order \in SetToSeqs(Modes) :
          \E res \in {FoldLeft(DoRender,
                              [wid |-> nextWid, entries |-> entries,
                               sent |-> FoldLeft(Broadcast, <<>>, callbacks)],
                              [n \in DOMAIN order |-> Combined(queue, order[n])])} :
              /\ nextWid' = res.wid
              /\ entries' = res.entries
              /\ toWsd' = toWsd \o res.sent
    /\ queue' = <<>> /\ callbacks' = <<>>
    /\ UNCHANGED <<doc, toKit, wsd, wire, shown, due, fetch, asked, edits, requests, faults>>

(* A message from wsd is put into the queue.                               *)
KitReceives ==
    /\ toKit # <<>>
    /\ queue' = PutTiles(queue, Head(toKit))
    /\ toKit' = Tail(toKit)
    /\ UNCHANGED <<doc, callbacks, nextWid, entries, toWsd, wsd, wire, shown, due, fetch, asked, edits, requests, faults>>

(* LibreOffice changes the document in one or two areas of a mode, and     *)
(* calls ViewCallback for each.                                            *)
Edit(m, a, b) ==
    /\ edits < MaxEdits
    /\ doc' = [t \in Tiles |-> doc[t] + IF t[2] = m /\ t[1] \in a[1]..a[2] \cup b[1]..b[2] THEN 1 ELSE 0]
    /\ callbacks' = FoldLeft(PutInvalidation, callbacks,
                             [n \in 1..2 |-> [mode |-> m, lo |-> <<a, b>>[n][1], hi |-> <<a, b>>[n][2]]])
    /\ edits' = edits + 1
    /\ UNCHANGED <<queue, nextWid, entries, toKit, toWsd, wsd, wire, shown, due, fetch, asked, requests, faults>>

(* trimIfInactive(): dropCache().                                          *)
Trim ==
    /\ MayFail("trim")
    /\ entries # [c \in Columns |-> NoPicture]
    /\ entries' = [c \in Columns |-> NoPicture]
    /\ Fails(TRUE)
    /\ UNCHANGED <<doc, queue, callbacks, nextWid, toKit, toWsd, wsd, wire, shown, due, fetch, asked, edits, requests>>

----------------------------------------------------------------------------
(* The tile cache.  Operators on w, the state of wsd.                      *)

IsCached(w, t) == w.cache[t].deltas # <<>>
IsValid(w, t) == w.cache[t].valid

IsEmptyDelta(d) == d.from = d.to

(* appendBlob(): a keyframe clears the tile, a delta is appended, and an   *)
(* empty delta after an empty delta only renews its wire id.               *)
AppendBlob(ds, d) ==
    CASE d.from = NoPicture -> <<d>>
      [] d.from # NoPicture /\ IsEmptyDelta(d) /\ Len(ds) > 1 /\ IsEmptyDelta(Last(ds)) ->
            [ds EXCEPT ![Len(ds)].wid = d.wid]
      [] OTHER -> Append(ds, d)

(* ensureCacheSize(): of two or more cached tiles, those whose key has a   *)
(* wire id up to some limit go, unless they are being rendered; the limit  *)
(* is 0 when there is room.                                                *)
CachedTiles(w) == {t \in Tiles : IsCached(w, t)}
EnsureCacheSize(w, limit) ==
    IF Cardinality(CachedTiles(w)) < 2 THEN w
    ELSE [w EXCEPT !.cache = [t \in Tiles |->
             IF @[t].key <= limit /\ w.rendering[t] = NotRendering THEN NotCached ELSE @[t]]]

(* saveDataToCache(), after its ensureCacheSize().                         *)
SaveDataToCache(w, d) ==
    IF ~IsCached(w, d.tile)
    THEN IF d.from # NoPicture
         THEN w
         ELSE [w EXCEPT !.cache[d.tile] = [valid |-> TRUE, deltas |-> <<d>>, key |-> d.wid]]
    ELSE [w EXCEPT !.cache[d.tile].deltas = AppendBlob(@, d), !.cache[d.tile].valid = TRUE]

(* SenderQueue::deduplicate() of a "tile:".                                *)
IsTileOf(m, t) == m.type = "tile" /\ m.tile = t
Enqueue(q, m) ==
    Append(IF m.type = "tile" THEN RemoveFirstMatch(q, LAMBDA x : IsTileOf(x, m.tile)) ELSE q, m)

(* needsKeyframe().                                                        *)
NeedsKeyframe(ds, since) == since < ds[1].wid

(* Mutant of ChangesSince: the first one that is lacking is left out.      *)
ChangesAfterNext(ds, since) ==
    SelectSeq(ds, LAMBDA d : d.wid > since + IF since = 0 THEN 0 ELSE 1)

(* appendChangesSince(): what a browser lacks that was sent the wire id    *)
(* since.                                                                  *)
ChangesSince(ds, since) == SelectSeq(ds, LAMBDA d : d.wid > since)

(* enqueueSendMessage(): the tile is tracked if the queue has grown.       *)
EnqueueSendMessage(w, s, msg) ==
    LET q == Enqueue(w.out[s], msg)
    IN  [w EXCEPT !.out[s] = q,
                  !.onFly[s] = IF Len(q) # Len(w.out[s]) THEN Append(@, msg.wid) ELSE @]

(* updateTileSeq(): the wire id is noted as the last one sent.             *)
UpdateTileSeq(w, s, t, wid) == [w EXCEPT !.last[s][t] = wid]

SendTileNow(w, s, t, wid) ==
    LET ds    == w.cache[t].deltas
        since == w.last[s][t]
    IN  EnqueueSendMessage(UpdateTileSeq(w, s, t, wid), s,
                           [type   |-> IF NeedsKeyframe(ds, since) THEN "tile" ELSE "delta",
                            tile   |-> t,
                            wid    |-> wid,
                            deltas |-> ChangesSince(ds, since)])

(* subscribeToTileRendering(): only a renewed subscription sets the        *)
(* version.                                                                *)
SubscribeToTileRendering(w, s, r) ==
    IF w.rendering[r.tile] = NotRendering
    THEN [w EXCEPT !.rendering[r.tile] = [ver |-> r.ver, subscribers |-> {s}]]
    ELSE IF s \in w.rendering[r.tile].subscribers
         THEN [w EXCEPT !.rendering[r.tile].ver = r.ver]
         ELSE [w EXCEPT !.rendering[r.tile].subscribers = @ \cup {s}]

(* Mutant of Subscribers: only one of them is told.                        *)
OneSubscriber(r) == SubSeq(SetToSeq(r.subscribers), 1, 1)

Subscribers(r) == SetToSeq(r.subscribers)

(* forgetTileBeingRendered(): unless a newer rendering is waited for.      *)
ForgetTileBeingRendered(w, d) ==
    IF w.rendering[d.tile].ver <= d.ver THEN [w EXCEPT !.rendering[d.tile] = NotRendering] ELSE w

(* saveTileAndNotify(): the subscribers get the tile, unless it is a delta *)
(* of a tile no longer cached.                                             *)
SaveTileAndNotify(w, d, limit) ==
    LET saved == SaveDataToCache(EnsureCacheSize(w, limit), d)
        r     == w.rendering[d.tile]
        told  == IF ~IsCached(saved, d.tile) THEN saved
                 ELSE FoldLeft(LAMBDA x, s : SendTileNow(x, s, d.tile, d.wid),
                               saved, Subscribers(r))
    IN  ForgetTileBeingRendered(told, d)

----------------------------------------------------------------------------
(* Tiles in the browser.                                                   *)

(* _applyDelta(), one after the other: a keyframe is a picture; a delta    *)
(* makes sense on the picture that it was made from, and without any it is *)
(* ignored; an empty delta changes nothing.                                *)
Applied(pic, ds) ==
    LET keyframes == {i \in DOMAIN ds : ds[i].from = NoPicture}
        last      == IF keyframes = {} THEN 0 ELSE Max(keyframes)
        start     == IF last = 0 THEN pic ELSE ds[last].to
        changes   == SelectSeq(SubSeq(ds, last + 1, Len(ds)), LAMBDA d : ~IsEmptyDelta(d))
    IN  CASE start = NoPicture \/ changes = <<>> -> start
          [] OTHER -> IF \A i \in DOMAIN changes :
                           changes[i].from = IF i = 1 THEN start ELSE changes[i - 1].to
                      THEN Last(changes).to
                      ELSE Garbage

(* A delta came for a tile that the browser has no keyframe of.            *)
LacksKeyframe(has, m) == m.type = "delta" /\ has.pic = NoPicture

(* Mutant of Rogue: the delta is dropped, and that is all.                 *)
NoRogue(has, m) == {}

(* The tiles that _onTileMsg() queues for a later fetch.                   *)
Rogue(has, m) == IF LacksKeyframe(has, m) THEN {m.tile} ELSE {}

(* _onTileMsg(): a delta that nothing is there for is not applied, and     *)
(* leaves the wire id 0.                                                   *)
OnTileMsg(has, m) ==
    LET pic == Applied(has.pic, m.deltas)
    IN  [pic |-> pic, wid |-> IF pic = NoPicture THEN 0 ELSE m.wid]

(* The deltas for a tile in messages to a browser.                         *)
DeltasOf(ms, t) ==
    LET its == SelectSeq(ms, LAMBDA m : m.tile = t)
    IN  FlattenSeq([i \in DOMAIN its |-> its[i].deltas])

(* The broker has become w, and browsers and wires sh and wi: the          *)
(* tilecombine messages leave.                                             *)
Becomes(w, sh, wi) ==
    \E x \in {w} :
        /\ toKit' = toKit \o x.combine
        /\ wsd' = [x EXCEPT !.combine = <<>>]
        /\ shown' = sh
        /\ wire' = wi
        /\ due' = [s \in Sessions |-> [t \in Tiles |->
                     Applied(sh[s][t].pic, DeltasOf(wi[s] \o x.out[s], t))]]

----------------------------------------------------------------------------
(* The broker's tile handlers.                                             *)

(* sendRequestedTiles(), one round of the loop.  stale: the tiles whose    *)
(* rendering takes too long.                                               *)
SendRequestedTile(w, s, r, stale) ==
    IF Len(w.onFly[s]) >= OnFlyLimit THEN w
    ELSE
    LET p == [w EXCEPT !.requested[s] = Tail(@)]
        again == \/ w.rendering[r.tile] = NotRendering
                 \/ r.tile \in stale
                 \/ w.rendering[r.tile].ver < r.ver
        new == [r EXCEPT !.ver = w.version + 1, !.old = IF IsCached(w, r.tile) THEN @ ELSE 0]
    IN  IF IsValid(w, r.tile)
        THEN SendTileNow(p, s, r.tile, Last(w.cache[r.tile].deltas).wid)
        ELSE IF again
             THEN SubscribeToTileRendering([p EXCEPT !.version = @ + 1, !.combine = Append(@, new)],
                                           s, new)
             ELSE SubscribeToTileRendering(p, s, r)

(* sendRequestedTiles(), after removeOutdatedTilesOnFly() dropped the      *)
(* first late tiles.                                                       *)
SendRequestedTiles(w, s, late, stale) ==
    LET w0 == [w EXCEPT !.onFly[s] = SubSeq(@, late + 1, Len(@)), !.combine = <<>>]
        w1 == FoldLeft(LAMBDA x, r : SendRequestedTile(x, s, r, stale), w0, w.requested[s])
    IN  [w1 EXCEPT !.combine = IF w1.combine = <<>> THEN w.combine
                               ELSE Append(w.combine, w1.combine)]

(* Mutant of Renews: the tracker keeps what the browser has lost.          *)
NeverRenews(r, force) == FALSE

(* A request without an old wire id: the browser has nothing.              *)
Renews(r, force) == force /\ r.old = 0

(* handleTileCombinedRequest(), one tile of the request.                   *)
RequestTile(w, s, r, force) ==
    LET t == r.tile
        renew == Renews(r, force)
        old == IF ~IsCached(w, t) THEN 0 ELSE IF renew THEN 1 ELSE r.old
        new == [tile |-> t, old |-> old, ver |-> w.version + 1]
        w1 == [w EXCEPT !.version = @ + 1,
                        !.last[s][t] = IF renew THEN 0 ELSE @,
                        !.requested[s] =
                           IF \E i \in DOMAIN @ : @[i].tile = t
                           THEN [i \in DOMAIN @ |-> IF @[i].tile = t THEN new ELSE @[i]]
                           ELSE Append(@, new)]
    IN  IF IsValid(w, t) THEN w1
        ELSE SubscribeToTileRendering([w1 EXCEPT !.combine = Append(@, new)], s, new)

(* handleTileCombinedRequest().                                            *)
HandleTileCombinedRequest(w, s, rs, force, late, stale) ==
    LET w1 == FoldLeft(LAMBDA x, r : RequestTile(x, s, r, force), [w EXCEPT !.combine = <<>>], rs)
        w2 == [w1 EXCEPT !.combine = IF @ = <<>> THEN @ ELSE <<@>>]
    IN  SendRequestedTiles(w2, s, late, stale)

(* Mutant of Touched: a rectangle without its last column.                 *)
TouchedButLast(i) == {t \in Tiles : t[2] = i.mode /\ t[1] \in (i.lo - 1)..(i.hi - 1)}

(* The columns that an invalidation touches.                               *)
Touched(i) == {t \in Tiles : t[2] = i.mode /\ t[1] \in (i.lo - 1)..(i.hi + 1)}

(* TileCache::invalidateTiles().                                           *)
InvalidateTiles(w, ts) ==
    [w EXCEPT !.cache = [t \in Tiles |-> IF t \in ts THEN [@[t] EXCEPT !.valid = FALSE] ELSE @[t]]]

(* handleTileInvalidation(): the visible ones are requested again.         *)
HandleTileInvalidation(w, s, i, late, stale) ==
    LET w1 == InvalidateTiles(w, Touched(i))
        ts == SetToSortSeq(Touched(i) \cap Visible(s), LAMBDA t, u : t[1] < u[1])
        rs == [n \in DOMAIN ts |-> [tile |-> ts[n], old |-> IF IsCached(w, ts[n]) THEN 1 ELSE 0]]
    IN  IF rs = <<>> THEN w1
        ELSE HandleTileCombinedRequest(w1, s, rs, FALSE, late, stale)

(* What the clocks may say: tracked tiles are outdated, and the renderings *)
(* under way are stale.                                                    *)
Lateness(s) == IF MayFail("late") THEN 0..Len(wsd.onFly[s]) ELSE {0}
Staleness ==
    {{}} \cup IF MayFail("late") THEN {{t \in Tiles : wsd.rendering[t] # NotRendering}} ELSE {}

(* What the size of the cache may be held against.                         *)
Limits == {0} \cup IF MayFail("evict") THEN {wsd.cache[t].key : t \in Tiles} ELSE {}

(* handleTileCombinedResponse().                                           *)
HandleTileCombinedResponse(w, ds, limits) ==
    FoldLeft(LAMBDA x, i : SaveTileAndNotify(x, ds[i], limits[i]), w, [i \in DOMAIN ds |-> i])

(* The broker handles a message from the Kit.                              *)
WsdReceives ==
    /\ toWsd # <<>>
    /\ toWsd' = Tail(toWsd)
    /\ LET m == Head(toWsd) IN
       \/ /\ m.type = "invalidate"
          /\ \E late \in Lateness(m.s), stale \in Staleness :
                /\ Becomes(HandleTileInvalidation(wsd, m.s, m.rect, late, stale), shown, wire)
                /\ Fails(late > 0 \/ stale # {})
       \/ /\ m.type = "tiles"
          /\ \E limits \in [DOMAIN m.tiles -> Limits] :
                /\ Becomes(HandleTileCombinedResponse(wsd, m.tiles, limits), shown, wire)
                /\ Fails(\E i \in DOMAIN limits : limits[i] # 0)
    /\ UNCHANGED <<kitVars, fetch, asked, edits, requests>>

(* The poll loop adjusts the size of the cache to the number of sessions:  *)
(* setMaxCacheSize().                                                      *)
Rebalance ==
    /\ \E limit \in Limits : wsd' = EnsureCacheSize(wsd, limit)
    /\ wsd' # wsd
    /\ Fails(TRUE)
    /\ UNCHANGED <<kitVars, toKit, toWsd, wire, shown, due, fetch, asked, edits, requests>>

----------------------------------------------------------------------------
(* The browsers.                                                           *)

(* _sendTileCombineRequest(): the request names the wire id of each tile.  *)
TileCombineRequest(ts, has) ==
    LET seq == SetToSortSeq(ts, LAMBDA t, u : t[1] < u[1])
    IN  [n \in DOMAIN seq |-> [tile |-> seq[n], old |-> has[seq[n]].wid]]

(* A browser asks for some tiles: sendCombinedTiles().                     *)
AskFor(s, ts) ==
    \E late \in Lateness(s), stale \in Staleness :
       /\ Becomes(HandleTileCombinedRequest(wsd, s, TileCombineRequest(ts, shown[s]), TRUE, late, stale),
                  shown, wire)
       /\ Fails(late > 0 \/ stale # {})

(* It does so for tiles that it lacks, or has found invalid.               *)
Ask(s) ==
    /\ requests < MaxRequests
    /\ requests' = requests + 1
    /\ \E ts \in SUBSET Visible(s) \ {{}} :
          /\ AskFor(s, ts)
          /\ asked' = [asked EXCEPT ![s] = @ \cup ts]
    /\ UNCHANGED <<kitVars, toWsd, fetch, edits>>

(* It reclaims the memory of tiles that are out of view, and tells nobody: *)
(* _garbageCollect().                                                      *)
GarbageCollect(s) ==
    /\ MayFail("drop")
    /\ \E ts \in SUBSET {t \in Tiles : shown[s][t].pic # NoPicture} \ {{}} :
          /\ Becomes(wsd, [shown EXCEPT ![s] = [t \in Tiles |-> IF t \in ts THEN Nothing ELSE @[t]]], wire)
          /\ asked' = [asked EXCEPT ![s] = @ \ ts]
    /\ Fails(TRUE)
    /\ UNCHANGED <<kitVars, toWsd, fetch, edits, requests>>

(* It asks for the keyframes that deltas were sent without:                *)
(* _sendProcessedResponse(), after the messages at hand.                   *)
FetchKeyframes(s) ==
    /\ fetch[s] # {}
    /\ AskFor(s, fetch[s])
    /\ fetch' = [fetch EXCEPT ![s] = {}]
    /\ UNCHANGED <<kitVars, toWsd, asked, edits, requests>>

(* The session's socket takes the next message of its SenderQueue.         *)
Write(s) ==
    /\ wsd.out[s] # <<>>
    /\ wire' = [wire EXCEPT ![s] = Append(@, Head(wsd.out[s]))]
    /\ wsd' = [wsd EXCEPT !.out[s] = Tail(@)]
    /\ UNCHANGED <<kitVars, toKit, toWsd, shown, due, fetch, asked, edits, requests, faults>>

(* A browser processes a tile and says so: "tileprocessed" is handled by   *)
(* onTileProcessed() and sendRequestedTiles().                             *)
TileProcessed(s) ==
    /\ wire[s] # <<>>
    /\ LET m == Head(wire[s])
           has == shown[s][m.tile]
           w == [wsd EXCEPT !.onFly[s] = RemoveFirst(@, m.wid)]
       IN  /\ \E late \in Lateness(s), stale \in Staleness :
                 /\ Becomes(SendRequestedTiles(w, s, late, stale),
                            [shown EXCEPT ![s][m.tile] = OnTileMsg(has, m)],
                            [wire EXCEPT ![s] = Tail(@)])
                 /\ Fails(late > 0 \/ stale # {})
           /\ fetch' = [fetch EXCEPT ![s] = @ \cup Rogue(has, m)]
           /\ asked' = [asked EXCEPT ![s] = @ \cup IF LacksKeyframe(has, m) THEN {m.tile} ELSE {}]
    /\ UNCHANGED <<kitVars, toWsd, edits, requests>>

Next ==
    \/ KitReceives \/ DrainQueue \/ Trim \/ WsdReceives \/ Rebalance
    \/ \E m \in Modes, a \in Areas, b \in Areas : Edit(m, a, b)
    \/ \E s \in Sessions :
          Ask(s) \/ GarbageCollect(s) \/ FetchKeyframes(s) \/ Write(s) \/ TileProcessed(s)

Spec == Init /\ [][Next]_vars

(* Messages are delivered and handled, queues drained: weak fairness of    *)
(* KitReceives, WsdReceives, DrainQueue, and of Write, TileProcessed and   *)
(* FetchKeyframes of some session, each told by the variable that only it  *)
(* shortens or lengthens.                                                  *)
Shortens(old, new) == old # <<>> /\ new = Tail(old)
FairSpec ==
    /\ Spec
    /\ WF_toKit(Shortens(toKit, toKit'))
    /\ WF_toWsd(Shortens(toWsd, toWsd'))
    /\ WF_<<queue, callbacks>>(queue' = <<>> /\ callbacks' = <<>>)
    /\ WF_wire(\E s \in Sessions :
          \/ wire[s] # <<>> /\ wire' = [wire EXCEPT ![s] = Tail(@)]
          \/ wsd.out[s] # <<>> /\ wire' = [wire EXCEPT ![s] = Append(@, Head(wsd.out[s]))])
    /\ WF_fetch(\E s \in Sessions : fetch[s] # {} /\ fetch' = [fetch EXCEPT ![s] = {}])

----------------------------------------------------------------------------
(* What the invalidations under way touch.                                 *)
Announced ==
    UNION ({Touched(callbacks[i]) : i \in DOMAIN callbacks}
             \cup {Touched(toWsd[i].rect) : i \in {j \in DOMAIN toWsd : toWsd[j].type = "invalidate"}})

(* A cached tile that is valid shows the document as it is, or an          *)
(* invalidation of it is under way: the possible race that appendBlob()    *)
(* mentions does not happen.                                               *)
ValidIsCurrent ==
    \A t \in Tiles :
        IsValid(wsd, t) => Last(wsd.cache[t].deltas).to = <<t, doc[t]>> \/ t \in Announced

(* No browser shows a picture with a delta of another one on top.          *)
NoGarbage == \A s \in Sessions, t \in Tiles : shown[s][t].pic # Garbage

(* The wire id that a session noted as last sent is what its browser has,  *)
(* or will have; or the browser garbage-collected the tile, and knows:     *)
(* either it has not missed the tile since, or it is going to fetch it.    *)
TrackerIsRight ==
    \A s \in Sessions, t \in Tiles :
       LET ds == wsd.cache[t].deltas IN
       \A i \in DOMAIN ds :
          ds[i].wid = wsd.last[s][t] =>
             \/ due[s][t] = ds[i].to
             \/ due[s][t] = NoPicture /\ (t \notin asked[s] \/ t \in fetch[s])

(* A subscriber of a tile that the cache has not is not forgotten: a       *)
(* request for the tile, or a picture of it, is under way.                 *)
UnderWay(t) ==
    \/ \E i \in DOMAIN queue : queue[i].tile = t
    \/ \E i \in DOMAIN toKit : \E j \in DOMAIN toKit[i] : toKit[i][j].tile = t
    \/ \E i \in DOMAIN toWsd : toWsd[i].type = "tiles"
                               /\ \E j \in DOMAIN toWsd[i].tiles : toWsd[i].tiles[j].tile = t
SubscribersServed ==
    \A t \in Tiles : wsd.rendering[t] # NotRendering /\ ~IsValid(wsd, t) => UnderWay(t)

(* What is sent to a browser makes tiles that only advance, never those of *)
(* another tile or broken ones: TileView, with the number of edits that    *)
(* the browser will show.                                                  *)
Version(pic, t) ==
    CASE pic = NoPicture -> -1
      [] pic # NoPicture /\ pic[1] = t -> pic[2]
      [] OTHER -> -2
View == INSTANCE TileView
            WITH shown <- [s \in Sessions |-> [t \in Tiles |-> Version(due[s][t], t)]]
ImplementsTileView == View!Spec

(* A browser that misses a tile is brought up to date, after every edit,   *)
(* unless it drops the tile again; it misses one that it asks for, and one *)
(* that it gets a delta of without having a keyframe.                      *)
CatchesUp ==
    \A s \in Sessions, t \in Tiles :
       [](t \in asked[s] => <>(shown[s][t].pic = <<t, doc[t]>> \/ t \notin asked[s]))
=============================================================================
