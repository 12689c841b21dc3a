------------------------------- MODULE Broker -------------------------------
(* build_packet: candidates are scored from the request, from the task's    *)
(* text and from one hop of relationships, ranked, and taken while budgets  *)
(* last, with their exact source when the mode asks for it.                 *)
EXTENDS QueryStore

CONSTANT Requests   \* [paths, symbols, words, files, mode, records, bytes, tokens]

VARIABLE packet     \* the packet being built

NoPacket == [step |-> "idle"]
BrokerInit == packet = NoPacket

(* Keys of candidates: a path, or a symbol as a structural or a semantic    *)
(* extractor names it.  Overloads of one file share a structural key.       *)
PathKey(p) == <<p, 0, FALSE>>
SymbolKey(r) == <<r.path, r.name, r.semantic>>

(* add_or_bump                                                              *)
Bump(scored, key, distance, semantic, points) ==
    IF key \in DOMAIN scored
    THEN [scored EXCEPT ![key].score = @ + points]
    ELSE scored @@ (key :> [score |-> points, distance |-> distance, semantic |-> semantic])

CurrentRows(g) == SelectSeq(store.symbols, LAMBDA r : Current(g, r))

(* The paths a request names come first.                                    *)
Asked(paths) == FoldSet(LAMBDA p, acc : Bump(acc, PathKey(p), 0, FALSE, 100), <<>>, paths)

BeginPacket ==
    /\ packet = NoPacket /\ current # 0
    /\ \E request \in Requests :
         packet' = [step |-> "symbols", gen |-> current, request |-> request, stable |-> TRUE,
                    scored |-> Asked(request.paths)]
    /\ Watch
    /\ UNCHANGED <<catalogueVars, disk, written>>

Stays == packet.stable /\ current = packet.gen

(* resolve_symbol takes one row of the key, whichever comes first.          *)
PacketSymbols ==
    /\ packet.step = "symbols"
    /\ LET rows(key) == {r \in ToSet(CurrentRows(packet.gen)) : SymbolKey(r) = key}
           found == {key \in packet.request.symbols : rows(key) # {}}
           choices == {f \in [found -> UNION {rows(key) : key \in found}] :
                          \A key \in found : f[key] \in rows(key)}
           points(r) == IF r.semantic THEN 115 ELSE 100
       IN  \E chosen \in choices :
             packet' = [packet EXCEPT !.step = "scan", !.stable = Stays,
                !.scored = FoldSet(LAMBDA key, acc :
                               Bump(acc, key, 0, chosen[key].semantic, points(chosen[key])),
                               @, found)]
    /\ UNCHANGED worldVars

MentionPoints(r) == IF r.semantic THEN 95 ELSE 80

(* Every row of a mentioned symbol scores, and so does every row of a file  *)
(* the text mentions.                                                       *)
Scan(scored, r) ==
    LET named == IF r.name \in packet.request.words
                 THEN Bump(scored, SymbolKey(r), 0, r.semantic, MentionPoints(r)) ELSE scored
    IN  IF r.path \in packet.request.files
        THEN Bump(named, PathKey(r.path), 0, FALSE, 70) ELSE named

PacketScan ==
    /\ packet.step = "scan"
    /\ LET scored == FoldLeft(Scan, packet.scored, CurrentRows(packet.gen))
           seeds == {key[1] : key \in DOMAIN scored}
       IN  packet' = [step |-> "expand", gen |-> packet.gen, request |-> packet.request,
                      stable |-> Stays, scored |-> scored, todo |-> seeds, seen |-> seeds]
    /\ UNCHANGED worldVars

(* One hop from each seed to the targets stored as paths, in the order of a *)
(* hash map: the first relationship that reaches a path decides its points. *)
PacketExpand ==
    /\ packet.step = "expand" /\ packet.todo # {}
    /\ \E seed \in packet.todo :
         LET points(r) == CASE r.kind = "calls" -> 50 [] r.kind = "imports" -> 40 [] OTHER -> 20
             hop(acc, r) ==
               IF r.target = "path" /\ r.to \in Path \ acc.seen
               THEN [acc EXCEPT !.seen = @ \cup {r.to},
                                !.scored = Bump(@, PathKey(r.to), 1, FALSE, points(r))]
               ELSE acc
             reached == FoldLeft(hop, [seen |-> packet.seen, scored |-> packet.scored],
                                 SelectSeq(store.rels, LAMBDA r : r.from = seed /\ Current(packet.gen, r)))
         IN  packet' = [packet EXCEPT !.seen = reached.seen, !.scored = reached.scored,
                                      !.todo = @ \ {seed}, !.stable = Stays]
    /\ UNCHANGED worldVars

Outranks(scored, a, b) ==
    \/ scored[a].score > scored[b].score
    \/ scored[a].score = scored[b].score /\ scored[a].distance < scored[b].distance
    \/ /\ scored[a].score = scored[b].score /\ scored[a].distance = scored[b].distance
       /\ \/ a[1] < b[1]
          \/ a[1] = b[1] /\ (a[2] < b[2] \/ (a[2] = b[2] /\ b[3] /\ ~ a[3]))

Ranking(scored) == SetToSortSeq(DOMAIN scored, LAMBDA a, b : Outranks(scored, a, b))

PacketRank ==
    /\ packet.step = "expand" /\ packet.todo = {}
    /\ packet' = [step |-> "select", gen |-> packet.gen, request |-> packet.request,
                  scored |-> packet.scored, stable |-> packet.stable,
                  ranking |-> Ranking(packet.scored), left |-> Ranking(packet.scored),
                  selected |-> <<>>, unselected |-> <<>>, used |-> 0, excerpts |-> <<>>]
    /\ UNCHANGED worldVars

(* One tenth of the records is held back.                                   *)
Usable == (packet.request.records * 9) \div 10

Take(p, excerpts) ==
    [p EXCEPT !.step = "select", !.selected = Append(@, Head(p.left)), !.left = Tail(@),
              !.excerpts = @ \o excerpts]
Omit(p) == [p EXCEPT !.step = "select", !.unselected = Append(@, Head(p.left)), !.left = Tail(@)]

(* Past the record budget, without source, or the file's indexed hash.      *)
PacketNext ==
    /\ packet.step = "select" /\ packet.left # <<>>
    /\ LET p == Head(packet.left)[1]
       IN  packet' = IF Len(packet.selected) >= Usable THEN Omit(packet)
                     ELSE IF packet.request.mode = "map" THEN Take(packet, <<>>)
                     ELSE [IF p \in CurrentPaths(packet.gen)
                           THEN [packet EXCEPT !.step = "hash"] ELSE Take(packet, <<>>)
                           EXCEPT !.stable = Stays]
    /\ UNCHANGED worldVars

Excerpt(status, text) == <<[path |-> Head(packet.left)[1], status |-> status, text |-> text]>>

HashMatches(p) == disk[p].text = store.files[packet.gen][p]

PacketHash ==
    /\ packet.step = "hash"
    /\ LET p == Head(packet.left)[1]
       IN  packet' = IF disk[p].text = NoFile THEN Take(packet, Excerpt("read_failed", NoFile))
                     ELSE IF HashMatches(p) THEN [packet EXCEPT !.step = "text"]
                     ELSE Take(packet, Excerpt("hash_mismatch", NoFile))
    /\ UNCHANGED worldVars

(* A text of number t has 4 t bytes, and four bytes are a token.            *)
OverBudget(bytes) ==
    \/ packet.used + bytes > packet.request.bytes
    \/ (packet.used + bytes) \div 4 > packet.request.tokens

(* The file is read again for its text, which is not hashed.                *)
PacketText ==
    /\ packet.step = "text"
    /\ LET text == disk[Head(packet.left)[1]].text
       IN  packet' = IF text = NoFile THEN Take(packet, Excerpt("read_failed", NoFile))
                     ELSE IF OverBudget(4 * text) THEN Omit(packet)
                     ELSE [Take(packet, Excerpt("verified", text)) EXCEPT !.used = @ + 4 * text]
    /\ UNCHANGED worldVars

(* Mutant: what the budgets left out does not count.                        *)
MutStatus(p) ==
    IF \E i \in DOMAIN p.excerpts : p.excerpts[i].status # "verified" THEN "partial" ELSE "complete"

Status(p) ==
    IF p.unselected # <<>> \/ \E i \in DOMAIN p.excerpts : p.excerpts[i].status # "verified"
    THEN "partial" ELSE "complete"

(* Alternatives are the first fifty left out, in audit mode only.           *)
PacketEnd ==
    /\ packet.step = "select" /\ packet.left = <<>>
    /\ packet' = [step |-> "built", gen |-> packet.gen, request |-> packet.request,
                  scored |-> packet.scored, stable |-> packet.stable, ranking |-> packet.ranking,
                  selected |-> packet.selected, used |-> packet.used,
                  excerpts |-> packet.excerpts, status |-> Status(packet),
                  alternatives |->
                      IF packet.request.mode = "audit"
                      THEN SubSeq(packet.unselected, 1, Min({50, Len(packet.unselected)}))
                      ELSE <<>>]
    /\ UNCHANGED worldVars

PacketReturned == packet.step = "built" /\ packet' = NoPacket /\ UNCHANGED worldVars

Brokering ==
    \/ BeginPacket \/ PacketSymbols \/ PacketScan \/ PacketExpand \/ PacketRank
    \/ PacketNext \/ PacketHash \/ PacketText \/ PacketEnd \/ PacketReturned

-----------------------------------------------------------------------------
(* No packet of build_packet goes over its budgets, and what it calls       *)
(* complete leaves nothing out: every ranked candidate is a target, and     *)
(* every one whose file the generation lists comes with verified source     *)
(* when the mode asks for source, as long as no activation fell between its *)
(* statements, whatever is committed and edited meanwhile.                  *)
PacketsAreHonest ==
    packet.step = "built" =>
        /\ packet.used <= packet.request.bytes /\ packet.used \div 4 <= packet.request.tokens
        /\ Len(packet.selected) * 10 <= packet.request.records * 9
        /\ packet.status = "complete" =>
             /\ packet.selected = packet.ranking
             /\ packet.stable /\ packet.request.mode # "map" =>
                  \A i \in DOMAIN packet.selected :
                      store.files[packet.gen][packet.selected[i][1]] # NoFile =>
                          \E j \in DOMAIN packet.excerpts :
                              /\ packet.excerpts[j].path = packet.selected[i][1]
                              /\ packet.excerpts[j].status = "verified"

(* The text of an excerpt that a packet calls verified was in the file      *)
(* while it was built, and so was the indexed one, whose hash it reports:   *)
(* where they differ, the file was written between the hash and the text.   *)
PacketTextWasThere ==
    packet.step = "built" =>
        \A i \in DOMAIN packet.excerpts :
            LET e == packet.excerpts[i]
            IN  e.status = "verified" => {e.text, store.files[packet.gen][e.path]} \subseteq held[e.path]
=============================================================================
