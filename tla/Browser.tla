------------------------------ MODULE Browser ------------------------------
(***************************************************************************)
(* The fetch control of apps/netsurf/netsurf.c for one window.  Pages come *)
(* from the WRP proxy as an image inside an image-map link; every page has *)
(* a new map id, and a click or a key is sent to the map of the page shown *)
(* now.  Actions of the user wait in a queue until that id is known.       *)
(*                                                                         *)
(* A map id is the number of the request that brought the page (0: none).  *)
(* Layout, text and drawing are left out.                                  *)
(***************************************************************************)
EXTENDS Wget

CONSTANT ActionQueueSize    \* size of action_queue

ASSUME BrowserAssumption == ActionQueueSize \in Nat \ {0}

\* q: targets of the queued actions; img, map, url: ids in image_url,
\* image_map_href and ns_url.  History: used, the ids actions went to; hasty,
\* one went while another was under way or to an id used before; upset, a
\* page was overtaken by another, did not arrive, or brought no map while actions
\* waited
EmptyNs ==
    [waiting |-> FALSE, q |-> <<>>, loading |-> FALSE, ready |-> FALSE, has |-> FALSE,
     img |-> 0, map |-> 0, url |-> 0, reset |-> FALSE, used |-> {}, hasty |-> FALSE, upset |-> FALSE]

ResetDoc(ns, keep) ==
    [ns EXCEPT !.has = FALSE, !.loading = FALSE, !.map = 0,
               !.ready = @ /\ keep, !.img = IF keep THEN @ ELSE 0]

ClearQueued(ns) == [ns EXCEPT !.q = <<>>, !.waiting = FALSE]

Enqueue(ns, target) == IF Len(ns.q) >= ActionQueueSize THEN ns ELSE [ns EXCEPT !.q = Append(@, target)]

\* ns_start_navigation to a map: the old page stays until data arrive
StartMap(n, id) ==
    QueueRequest([n EXCEPT !.ns.url = id, !.ns.loading = TRUE, !.ns.reset = TRUE,
                           !.ns.map = 0, !.ns.used = @ \cup {id},
                           !.ns.hasty = \/ @ \/ id \in n.ns.used
                                        \/ n.job.owner = Browser /\ (n.job.active \/ n.job.pending)],
                 "ip", "page", Browser, FALSE)

\* netsurf_begin_navigation with the address of a whole page
BeginNavigation(ns) == [ResetDoc(ns, ns.ready) EXCEPT !.url = 0, !.loading = ns.ready]

\* ns_start_document_navigation; a request that cannot be queued changes nothing
DocumentNavigation(n) ==
    { [m EXCEPT !.ns = BeginNavigation(ClearQueued(@))] :
        m \in QueueRequest(n, "ip", "page", Browser, FALSE) }

\* ns_follow_submit, netsurf_refresh_current_view: the queued actions stay, and
\* the old page goes even if no request for the new one can be queued
Reload(n) ==
    LET begun == [n EXCEPT !.ns = BeginNavigation(@)]
    IN  {[begun EXCEPT !.ns.upset = TRUE]} \cup QueueRequest(begun, "ip", "page", Browser, FALSE)

\* the map an action goes to: the page's, the one it was aimed at, the
\* address's, the one of the image shown
ActionMap(ns) ==
    IF ns.map # 0 THEN ns.map
    ELSE IF Head(ns.q) # 0 THEN Head(ns.q)
    ELSE IF ns.url # 0 THEN ns.url
    ELSE ns.img

GatedByImage(ns) == ns.q = <<>> \/ ns.loading

\* ns_process_queued_actions: the gate
Gated(ns) == ns.waiting \/ ns.q = <<>> \/ ns.loading

ProcessQueued(n) ==
    IF Gated(n.ns) \/ ActionMap(n.ns) = 0 THEN {n}
    ELSE StartMap([n EXCEPT !.ns.waiting = TRUE, !.ns.q = Tail(@)], ActionMap(n.ns))

\* netsurf_feed_data: unit number i of connection c; the image token is in
\* the page's last unit
FeedData(n, c) ==
    LET resp == n.conns[c].resp
        ns0  == IF n.ns.reset THEN [ResetDoc(n.ns, TRUE) EXCEPT !.reset = FALSE] ELSE n.ns
        token == n.conns[c].sent + 1 = resp.len /\ resp.img # "none" /\ ~ns0.has
    IN  [n EXCEPT !.ns =
            IF ~token THEN ns0
            ELSE [ns0 EXCEPT !.has = TRUE, !.loading = TRUE, !.img = c,
                             !.map = IF resp.img = "map" THEN c ELSE 0,
                             !.waiting = @ /\ resp.img # "map"]]

\* netsurf_complete_data: the image is fetched next; when the page an action
\* asked for brings no map, the queued actions are dropped
CompleteData(n) ==
    UNION { LET l == [m EXCEPT !.ns.upset = @ \/ (m.ns.map = 0 /\ (m.ns.waiting \/ m.ns.q # <<>>))]
                k == IF m.ns.waiting /\ m.ns.map = 0 THEN [l EXCEPT !.ns = ClearQueued(@)] ELSE l
            IN  IF m.ns.has THEN {k} ELSE ProcessQueued(k) :
            m \in IF n.ns.has
                  THEN QueueRequest([n EXCEPT !.ns.loading = TRUE], "ip", "image", Browser, FALSE)
                  ELSE {n} }

\* netsurf_receive_image
ReceiveImage(n, decodes) ==
    IF decodes THEN ProcessQueued([n EXCEPT !.ns.ready = TRUE, !.ns.loading = FALSE])
    ELSE {[n EXCEPT !.ns.loading = FALSE]}

=============================================================================
