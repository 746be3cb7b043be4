-------------------------------- MODULE Live --------------------------------
(***************************************************************************)
(* What clients look at: content pages behind a Redis cache, the devices   *)
(* their notifications go to, and the WebSocket feeds.                     *)
(***************************************************************************)
EXTENDS Accounts

-----------------------------------------------------------------------------
(***************************************************************************)
(* Content pages of one kind and language.  list_pages answers from the    *)
(* cache, which changes nothing, or reads the table and fills the cache.   *)
(* upsert_page (and the import scripts) writes the table only.             *)
(***************************************************************************)
ListPages_Miss(c) ==
  /\ Ready(c, "list_pages")
  /\ cache = Null
  /\ Reads(c, "list_pages", "fill", "pages", Null, page)
  /\ UNCHANGED <<redis, tables, guesses, admitted, log, scene>>

SetEx_ForEver(pages) == [pages |-> pages, ttl |-> FALSE]

SetEx(pages) == [pages |-> pages, ttl |-> TRUE]

ListPages_Fill(c) ==
  /\ At(c, {"list_pages"}, "fill")
  /\ cache' = SetEx(req[c].snap)
  /\ Ends(c)
  /\ UNCHANGED <<redis, accounts, page, device, feed, guesses, admitted, scene>>

CacheExpires ==
  /\ cache # Null /\ cache.ttl
  /\ cache' = Null
  /\ UNCHANGED <<redis, accounts, page, device, feed, req, ghosts>>

GetBySlug(slug) == {p \in page : p.slug = slug}

Upsert_Read(c) ==
  \E slug \in Slugs :
    /\ Ready(c, "upsert_page")
    /\ Reads(c, "upsert_page", "write", slug, Null, GetBySlug(slug))
    /\ UNCHANGED <<redis, tables, guesses, admitted, log, scene>>

UniqueKeyAllows_Any(rows) == TRUE

\* uq_content_pages_kind_lang_slug refuses the second INSERT of a slug.
UniqueKeyAllows(rows) == rows = {}

Upsert_Write(c) ==
  LET f == req[c] old == GetBySlug(req[c].key) IN
  /\ At(c, {"upsert_page"}, "write")
  /\ f.snap = {} => UniqueKeyAllows(old)
  /\ page' = (page \ (IF f.snap = {} THEN {} ELSE old)) \cup {[slug |-> f.key, edit |-> f.id]}
  /\ Commits(c)
  /\ UNCHANGED <<redis, accounts, cache, device, feed, guesses, admitted, scene>>

-----------------------------------------------------------------------------
(***************************************************************************)
(* Devices: upsert_device looks for the user's token and updates its       *)
(* platform, or inserts it; uq_devices_user_token.                         *)
(***************************************************************************)
DeviceRows(p, t) == {d \in device : d.user = p /\ d.token = t}

RegisterDevice_Read(c) ==
  \E p \in Rows(user), t \in DeviceTokens :
    /\ Ready(c, "register_device")
    /\ Reads(c, "register_device", "write", p, t, DeviceRows(p, t))
    /\ UNCHANGED <<redis, tables, guesses, admitted, log, scene>>

RegisterDevice_Write(c) ==
  LET f == req[c] old == DeviceRows(req[c].key, req[c].args) IN
  /\ At(c, {"register_device"}, "write")
  /\ f.snap = {} => UniqueKeyAllows(old)
  /\ device' = (device \ (IF f.snap = {} THEN {} ELSE old))
                 \cup {[user |-> f.key, token |-> f.args, platform |-> f.id]}
  /\ Commits(c)
  /\ UNCHANGED <<redis, accounts, content, feed, guesses, admitted, scene>>

-----------------------------------------------------------------------------
(***************************************************************************)
(* WebSockets.  _ws_pump starts a consumer and a drainer task and sends    *)
(* ws.ready; the consumer subscribes when it first runs, after that.  Redis *)
(* hands a published event to the subscriptions there are.  The pump ends  *)
(* with either task; the consumer with its Redis connection.               *)
(***************************************************************************)
Socket == [state : {"closed", "ready", "subscribed", "cut"},
           queue : Seq(Ids), received : SUBSET Ids, owed : SUBSET Ids]
NoSocket == [state |-> "closed", queue |-> << >>, received |-> {}, owed |-> {}]

WsConnect(b) ==
  /\ "publish" \in scene
  /\ sock[b].state = "closed" /\ sock[b].owed = {}
  /\ sock' = [sock EXCEPT ![b].state = "ready"]
  /\ UNCHANGED <<redis, accounts, content, device, published, req, ghosts>>

WsSubscribe(b) ==
  /\ sock[b].state = "ready"
  /\ sock' = [sock EXCEPT ![b].state = "subscribed"]
  /\ UNCHANGED <<redis, accounts, content, device, published, req, ghosts>>

\* Redis' PUBLISH, when a request publishes.
Publish(c) ==
  /\ Ready(c, "publish")
  /\ published' = published \cup {arrived + 1}
  /\ sock' = [b \in Sockets |->
                IF sock[b].state = "subscribed"
                THEN [sock[b] EXCEPT !.queue = Append(@, arrived + 1),
                                     !.owed = @ \cup {arrived + 1}]
                ELSE sock[b]]
  /\ CommitsAtOnce("publish", "channel")
  /\ UNCHANGED <<redis, accounts, content, device, guesses, admitted, scene>>

WsForward(b) ==
  /\ sock[b].state = "subscribed" /\ sock[b].queue # << >>
  /\ sock' = [sock EXCEPT ![b].queue = Tail(@),
                          ![b].received = @ \cup {Head(sock[b].queue)}]
  /\ UNCHANGED <<redis, accounts, content, device, published, req, ghosts>>

\* The subscription's connection breaks: the consumer ends, its queue is lost.
WsCut(b) ==
  /\ "cut" \in scene
  /\ sock[b].state = "subscribed"
  /\ sock' = [sock EXCEPT ![b].state = "cut", ![b].queue = << >>]
  /\ UNCHANGED <<redis, accounts, content, device, published, req, ghosts>>

PumpEnds_OnDisconnect(s) == FALSE

\* asyncio.wait(FIRST_COMPLETED): whoever of the two tasks ends first.
PumpEnds(s) == s = "cut"

WsClose(b) ==
  /\ PumpEnds(sock[b].state)
  /\ sock' = [sock EXCEPT ![b].state = "closed", ![b].queue = << >>]
  /\ UNCHANGED <<redis, accounts, content, device, published, req, ghosts>>

WsDisconnect(b) ==
  /\ sock[b].state \in {"ready", "subscribed"}
  /\ sock' = [sock EXCEPT ![b].state = "closed", ![b].queue = << >>]
  /\ UNCHANGED <<redis, accounts, content, device, published, req, ghosts>>

WsNext(b) == WsConnect(b) \/ WsSubscribe(b) \/ WsForward(b)
               \/ WsCut(b) \/ WsClose(b) \/ WsDisconnect(b)

LiveNext(c) ==
  \/ ListPages_Miss(c) \/ ListPages_Fill(c)
  \/ Upsert_Read(c) \/ Upsert_Write(c)
  \/ RegisterDevice_Read(c) \/ RegisterDevice_Write(c)
  \/ Publish(c)
=============================================================================
