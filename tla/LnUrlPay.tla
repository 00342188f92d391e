------------------------------ MODULE LnUrlPay ------------------------------
(***************************************************************************)
(* The LNURL service: the PartitionsLayer (service/src/axum/partitions.rs),*)
(* StoreOfferProvider (components/src/offer/provider.rs) and               *)
(* LnUrlPayHandlers (service/src/lnurl/pay/handler.rs), beside the offer   *)
(* service that changes the offers.                                        *)
(*                                                                         *)
(* A payer reads an offer, then asks for an invoice over an amount.  The   *)
(* invoice commits to the hash of the offer's metadata, and a wallet       *)
(* compares it with the metadata it was shown.  The offer response of an   *)
(* offer that expires says "public, max-age=<until then>", so any HTTP     *)
(* cache (external) may answer for the service until that moment.          *)
(* Handlers await the offer store and the balancer; offers change and time *)
(* passes meanwhile.  The balancer itself is LnBalancer's; here it answers *)
(* with an invoice or with an error.                                       *)
(***************************************************************************)
EXTENDS DbOfferStore

CONSTANTS
    Payers,
    Served  \* the partitions this instance is configured to serve

ASSUME ServedAssumption == Served \subseteq Partitions

VARIABLES
    now,    \* the clock of the service
    cache,  \* cache[k]: the offer response of key k some cache holds, or None
    payer   \* payer[p]: where payer p is

payVars == <<now, cache, payer>>
allVars == <<vars, payVars>>

-----------------------------------------------------------------------------
\* StoreOfferProvider::offer: the hash and the JSON text of the metadata are
\* functions of it, so that `text` stands for both.
StoredOffer(k) ==
    LET record == get_offer(k)
    IN  IF record = None THEN None ELSE [offer |-> record.offer, text |-> record.metadata]

is_expired(o) == now < o.timestamp \/ (o.expires # None /\ now > o.expires)

\* PartitionsService::call lets requests for other partitions go no further.
Serves(k) == k[1] \in Served

\* What the service would answer of key k now.
Offered(k) ==
    LET found == StoredOffer(k)
    IN  IF ~Serves(k) \/ found = None THEN None
        ELSE IF is_expired(found.offer) THEN None ELSE found

\* The state of a payer.
\*   seen     what it was shown;  cached: by a cache
\*   amount   what it asks an invoice for
\*   changed  what is stored under the key has changed since the payer got seen
\*   gone     the offer has been missing or expired ever since the request arrived
\*   verdict  how the request compares with the offer the handler found
\*   answer   the outcome: none, invoice, or the error
NoPayer == [phase |-> "idle", key |-> None, seen |-> None, cached |-> FALSE, amount |-> 0,
            changed |-> FALSE, gone |-> FALSE, verdict |-> None, answer |-> "none"]

Within(amount, o) == amount \in o.min_sendable .. o.max_sendable

\* What the properties compare when the invoice handler has looked at the offer:
\*   entitled  the amount lies within what the payer was shown
\*   expiring  the offer shown has an expiry;  expired: which has passed
\*   within    the amount lies within the offer found
\*   matches   the metadata found, whose hash the invoice carries, was shown
Verdict(p, found) ==
    [entitled |-> Within(payer[p].amount, payer[p].seen.offer),
     expiring |-> payer[p].seen.offer.expires # None,
     expired |-> payer[p].seen.offer.expires # None /\ now > payer[p].seen.offer.expires,
     within |-> found # None /\ Within(payer[p].amount, found.offer),
     matches |-> found # None /\ found.text = payer[p].seen.text]

PayInit ==
    /\ Init
    /\ now = 0
    /\ cache = [k \in OfferKeys |-> None]
    /\ payer = [p \in Payers |-> NoPayer]

Pays(p, new) == payer' = [payer EXCEPT ![p] = new]

-----------------------------------------------------------------------------
(* The payer and the handlers.                                             *)

\* Mutant: every response may be cached (and kept for ever).
Cacheable_all(o) == TRUE

\* expires_headers: public until it expires (max-age 0 is of no use to a cache),
\* or not to be cached at all.
Cacheable(o) == o.expires # None /\ now < o.expires

\* GET /offers/{partition}/{id}, answered by the offer handler.
offer(p, k) ==
    /\ payer[p].phase = "idle"
    /\ \/ /\ Offered(k) # None
          /\ Pays(p, [NoPayer EXCEPT !.phase = "shown", !.key = k, !.seen = Offered(k)])
          /\ cache' = IF Cacheable(Offered(k).offer) THEN [cache EXCEPT ![k] = Offered(k)]
                      ELSE cache
       \/ /\ Offered(k) = None
          /\ UNCHANGED <<payer, cache>>
    /\ UNCHANGED <<vars, now>>

\* The same request, answered by a cache while max-age lasts.
CachedOffer(p, k) ==
    /\ payer[p].phase = "idle" /\ cache[k] # None
    /\ Pays(p, [NoPayer EXCEPT !.phase = "shown", !.key = k, !.seen = cache[k],
                               !.cached = TRUE])
    /\ UNCHANGED <<vars, now, cache>>

\* GET .../invoice?amount= arrives; a comment longer than allowed is refused.
invoice(p, amount) ==
    /\ payer[p].phase = "shown"
    /\ Pays(p, [payer[p] EXCEPT !.phase = "asked", !.amount = amount,
                                !.gone = Offered(payer[p].key) = None])
    /\ UNCHANGED <<vars, now, cache>>

InvalidComment(p) ==
    /\ payer[p].phase = "asked"
    /\ Pays(p, NoPayer)
    /\ UNCHANGED <<vars, now, cache>>

\* Mutant: the upper bound itself is refused.
InRange_exclusive(amount, o) == amount >= o.min_sendable /\ amount < o.max_sendable

InRange(amount, o) == amount >= o.min_sendable /\ amount <= o.max_sendable

\* Mutant: the offer is the one a cache holds.
Found_cached(k) == IF cache[k] # None THEN cache[k] ELSE Offered(k)

\* The offer the invoice handler works with.
Found(k) == Offered(k)

\* The handler has the provider's answer and checks it.
CheckOffer(p) ==
    LET found == Found(payer[p].key)
        judged == [payer[p] EXCEPT !.key = None, !.seen = None, !.amount = 0,
                                   !.verdict = Verdict(p, found)]
    IN  /\ payer[p].phase = "asked"
        /\ Pays(p,
             IF found = None THEN [judged EXCEPT !.phase = "done", !.answer = "404"]
             ELSE IF ~InRange(payer[p].amount, found.offer)
             THEN [judged EXCEPT !.phase = "done", !.answer = "400"]
             ELSE [judged EXCEPT !.phase = "balancer"])
        /\ UNCHANGED <<vars, now, cache>>

\* The offer provider's store fails.
ProviderFails(p) ==
    /\ payer[p].phase = "asked"
    /\ Pays(p, [NoPayer EXCEPT !.phase = "done", !.answer = "error"])
    /\ UNCHANGED <<vars, now, cache>>

\* get_invoice of the balancer returns: the invoice, or an error by its source.
GetInvoice(p) ==
    /\ payer[p].phase = "balancer"
    /\ \/ Pays(p, [payer[p] EXCEPT !.phase = "done", !.answer = "invoice"])
       \/ Pays(p, [NoPayer EXCEPT !.phase = "done", !.answer = "error"])
    /\ UNCHANGED <<vars, now, cache>>

\* The payer turns to something else.
Leave(p) ==
    /\ payer[p].phase = "done"
    /\ Pays(p, NoPayer)
    /\ UNCHANGED <<vars, now, cache>>

-----------------------------------------------------------------------------
\* What a change of the stored offers, or of the time, means to the payers.
Notice ==
    LET changes == {k \in OfferKeys : StoredOffer(k)' # StoredOffer(k)}
        missing == {k \in OfferKeys : Offered(k)' = None}
    IN  payer' = [p \in Payers |->
            IF payer[p].key = None THEN payer[p]
            ELSE [payer[p] EXCEPT !.changed = @ \/ payer[p].key \in changes,
                                  !.gone = @ /\ payer[p].key \in missing]]

\* The offer service: one statement of one of its callers.
OfferService ==
    /\ Next
    /\ UNCHANGED <<now, cache>>
    /\ Notice

\* Time passes, and with it the age a cached response may reach.
Tick ==
    /\ now < MaxTime
    /\ now' = now + 1
    /\ cache' = [k \in OfferKeys |->
                    IF cache[k] # None /\ cache[k].offer.expires = now' THEN None ELSE cache[k]]
    /\ UNCHANGED vars
    /\ Notice

PayNext ==
    \/ OfferService \/ Tick
    \/ \E p \in Payers :
           \/ \E k \in OfferKeys : offer(p, k) \/ CachedOffer(p, k)
           \/ \E amount \in Amounts : invoice(p, amount)
           \/ InvalidComment(p) \/ CheckOffer(p) \/ ProviderFails(p) \/ GetInvoice(p) \/ Leave(p)

PaySpec == PayInit /\ [][PayNext]_allVars

-----------------------------------------------------------------------------
\* An offer with its metadata, as the service or a cache shows it.
Shown == [offer : OfferRecordSparse, text : Texts]

Verdicts == [entitled : BOOLEAN, expiring : BOOLEAN, expired : BOOLEAN,
             within : BOOLEAN, matches : BOOLEAN]

Payer == [phase : {"idle", "shown", "asked", "balancer", "done"},
          key : OfferKeys \cup {None}, seen : Shown \cup {None}, cached : BOOLEAN,
          amount : Amounts \cup {0}, changed : BOOLEAN, gone : BOOLEAN,
          verdict : Verdicts \cup {None},
          answer : {"none", "invoice", "400", "404", "error"}]

\* Types; whatever a cache holds says until when (expires_headers).
PayTypeOK ==
    /\ TypeOK
    /\ now \in Times
    /\ cache \in [OfferKeys -> {shown \in Shown : shown.offer.expires # None} \cup {None}]
    /\ payer \in [Payers -> Payer]

\* An invoice commits to the metadata its payer was shown, unless the offer was
\* changed after that, or the payer was shown a cached response of an offer that
\* expires (the hash of provider.rs against expires_headers): payers of an offer
\* without expiry are never left with an invoice their wallet must refuse
\* because of an old change.
MismatchExplained ==
    \A p \in Payers :
        payer[p].answer = "invoice" /\ ~payer[p].verdict.matches =>
            payer[p].changed \/ (payer[p].cached /\ payer[p].verdict.expiring)

\* A payer who asks for an amount within what it was shown is refused (404, 400)
\* only if the offer was changed or has expired since, or the payer was shown a
\* cached response (get_offer's checks against those of invoice).
RefusalExplained ==
    \A p \in Payers :
        payer[p].answer \in {"400", "404"} /\ payer[p].verdict.entitled =>
            payer[p].changed \/ payer[p].cached \/ payer[p].verdict.expired

\* No invoice for an offer that was deleted or had expired when the request
\* arrived and has been gone ever since, whatever caches still show, and none
\* over an amount outside the offer it commits to (the invoice handler's checks).
NoInvoiceOnceGone ==
    \A p \in Payers :
        payer[p].answer = "invoice" => ~payer[p].gone /\ payer[p].verdict.within

=============================================================================
