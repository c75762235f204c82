----------------------------- MODULE SafeFetch -----------------------------
(***************************************************************************)
(* Outgoing HTTP (core/ssrf.py): safe_fetch resolves a host, refuses it    *)
(* unless every address is public, sends the request to one of them and    *)
(* follows redirects itself, checking each anew.                           *)
(*                                                                         *)
(* One call meets a journey: for the k-th request, what the resolver says  *)
(* of the host at that moment and what the server at the chosen address    *)
(* answers.  safe_fetch keeps nothing between calls, so its result is a    *)
(* function of the URL and the journey.                                    *)
(***************************************************************************)
EXTENDS Integers, Sequences

CONSTANTS
    MaxRedirects,   \* MAX_REDIRECTS
    MaxBody,        \* max_body_bytes, in the unit of an answer's size
    Localhost,      \* the two names that are refused as such
    StartUrl,       \* URLs that callers give
    Hop,            \* what one request may meet
    NoAddress, NoLocation, SameHost

ASSUME FetchAssumption == MaxRedirects \in Nat /\ MaxBody \in Nat

IsUrl(u) == DOMAIN u = {"scheme", "host", "path"}

(* Addresses are of version 4 or 6, a Location is a URL.                   *)
IsHop(h) == /\ \A a \in h.dns : a.version \in {4, 6}
            /\ h.answer.location = NoLocation \/ IsUrl(h.answer.location)
            /\ h.answer.status \in Nat /\ h.answer.size \in Nat

ASSUME NetworkAssumption == /\ \A u \in StartUrl : IsUrl(u)
                            /\ \A h \in Hop : IsHop(h)

Journeys == [1..(MaxRedirects + 1) -> Hop]

AllowedSchemes == {"http", "https"}

(* is_public_address.  An address is [version, range, listed, embedded]:   *)
(* range is "public" or one of those ipaddress tells apart, listed says    *)
(* that it is in _METADATA_DENYLIST, embedded is the range of the IPv4     *)
(* address in a mapped IPv6 one ("none" in any other).                     *)
IsPublicAddress(a) == /\ ~a.listed
                      /\ a.embedded \in {"none", "public"}
                      /\ a.range = "public"

Preferred(S) == CHOOSE a \in S : \A b \in S : a.version <= b.version

(* One good address among those of a host taken for enough. *)
ResolveAnyPublic(host, dns) ==
    LET good == {a \in dns : IsPublicAddress(a)}
    IN  IF host \in Localhost \/ good = {} THEN NoAddress ELSE Preferred(good)

(* resolve_public_address; a host that is an address resolves to itself.   *)
ResolvePublicAddress(host, dns) ==
    IF \/ host \in Localhost
       \/ dns = {}
       \/ \E a \in dns : ~IsPublicAddress(a)
    THEN NoAddress
    ELSE Preferred(dns)

(* Any 3xx is a redirect to httpx, 304 included. *)
IsRedirect(answer) == answer.status \in 300..399

(* httpx.URL.join: a relative location keeps scheme and host. *)
Join(url, location) ==
    IF location.host = SameHost THEN [url EXCEPT !.path = location.path]
                                ELSE location

(* The URL as the caller wrote it or as the redirects before k named it.   *)
UrlOf(url, journey, k) ==
    LET at[j \in 1..k] ==
            IF j = 1 THEN url ELSE Join(at[j - 1], journey[j - 1].answer.location)
    IN  at[k]

(* The address the k-th request would be sent to. *)
AddressOf(url, journey, k) ==
    ResolvePublicAddress(UrlOf(url, journey, k).host, journey[k].dns)

Permitted(url, journey, k) ==
    /\ UrlOf(url, journey, k).scheme \in AllowedSchemes
    /\ AddressOf(url, journey, k) # NoAddress

(* A redirect that is followed: permitted, answered, within the limit and  *)
(* with a Location.  The k-th request's redirect is the k-th redirect.     *)
Followed(url, journey, k) ==
    /\ Permitted(url, journey, k)
    /\ IsRedirect(journey[k].answer)
    /\ k <= MaxRedirects
    /\ journey[k].answer.location # NoLocation

(* The request the loop ends with. *)
LastHop(url, journey) ==
    CHOOSE k \in 1..(MaxRedirects + 1) :
        /\ ~Followed(url, journey, k)
        /\ \A j \in 1..(k - 1) : Followed(url, journey, j)

(* SSRFBlockedError, an error of httpx (status 0), FetchTooLargeError or a *)
(* result; a redirect that is not followed is blocked.                     *)
OutcomeAt(url, journey, k) ==
    IF ~Permitted(url, journey, k) THEN "blocked"
    ELSE IF journey[k].answer.status = 0 THEN "error"
    ELSE IF IsRedirect(journey[k].answer) THEN "blocked"
    ELSE IF journey[k].answer.size > MaxBody THEN "too large"
    ELSE "ok"

(* safe_fetch: the outcome, the answer with the URL it came from, and the  *)
(* connections made on the way.                                            *)
Fetch(url, journey) ==
    LET last == LastHop(url, journey)
        sent == IF Permitted(url, journey, last) THEN last ELSE last - 1
    IN  [outcome     |-> OutcomeAt(url, journey, last),
         answer      |-> journey[last].answer,
         finalUrl    |-> UrlOf(url, journey, last),
         notModified |-> journey[last].answer.status = 304,
         connections |-> [k \in 1..sent |->
                             [address |-> AddressOf(url, journey, k),
                              url     |-> UrlOf(url, journey, k)]]]

-----------------------------------------------------------------------------
(* What a caller relies on, for one call. *)

(* The hosts that the caller or a server it was led to has named. *)
NamedHosts(url, journey, k) ==
    {url.host} \cup {journey[j].answer.location.host : j \in
                        {i \in 1..(k - 1) : journey[i].answer.location # NoLocation}}

(* A connection goes to an address the resolver gave for that very request *)
(* and all of whose companions are public, by an allowed scheme, for a     *)
(* host that was named: no redirect, later answer of the resolver or       *)
(* pinned address gets around the check or into the Host header.           *)
ChecksEveryHop(url, journey) ==
    LET made == Fetch(url, journey).connections
    IN  \A k \in DOMAIN made :
            /\ made[k].address \in journey[k].dns
            /\ \A a \in journey[k].dns : a.range = "public" /\ ~a.listed
            /\ made[k].url.host \in NamedHosts(url, journey, k) \ Localhost
            /\ made[k].url.scheme \in AllowedSchemes

(* A caller is handed the answer of the last connection and the URL it was *)
(* made for, never a redirect, never more than it asked for, and the fetch *)
(* ends after MaxRedirects redirects.                                      *)
FinalAnswer(url, journey) ==
    LET result == Fetch(url, journey)
        n == Len(result.connections)
    IN  /\ n <= MaxRedirects + 1
        /\ result.outcome = "ok" =>
              /\ n > 0
              /\ result.answer = journey[n].answer
              /\ result.finalUrl = result.connections[n].url
              /\ ~IsRedirect(result.answer)
              /\ result.answer.size <= MaxBody
              /\ \A k \in 1..(n - 1) : IsRedirect(journey[k].answer)
=============================================================================
