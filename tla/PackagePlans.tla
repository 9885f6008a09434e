---------------------------- MODULE PackagePlans ----------------------------
(***************************************************************************)
(* The plans of the messages that a package would take: every medium of    *)
(* its posts once, in albums where Telegram takes them, and every message  *)
(* of its drafts.                                                          *)
(***************************************************************************)
EXTENDS EventFusion, SegmentText

CONSTANTS
  Shows,   \* Shows[u]: the media of a post, each with its kind
  Album    \* TELEGRAM_ALBUM_LIMIT

MediaKinds == {"photo", "video", "gif"}
AlbumKinds == {"photo", "video"}
Media == UNION {{Shows[u][i].media : i \in DOMAIN Shows[u]} : u \in Told}
Shown == [media : Media, kind : MediaKinds]

ASSUME PlansAssumption ==
  /\ Album \in Nat \ {0} /\ IsFiniteSet(Told)
  /\ DOMAIN Shows = Told /\ \A u \in Told : Shows[u] \in Seq(Shown)

(* The media of the posts in order of publication.                         *)
MediaOf(p) ==
  LET posts == InOrder(p.posts)
      gathered[n \in 0 .. Len(posts)] == IF n = 0 THEN <<>> ELSE gathered[n - 1] \o Shows[posts[n]]
  IN gathered[Len(posts)]

(* Those that did not stand before.                                        *)
_eligible_media(p) ==
  LET all == MediaOf(p)
  IN Chosen(all, {i \in DOMAIN all : \A j \in 1 .. i - 1 : all[j].media # all[i].media})

Fits(unit, m) == Len(unit) < Album /\ {unit[1].kind, m.kind} \subseteq AlbumKinds

(* Runs of photos and videos make albums, anything else stands alone.      *)
Placed(units, m) ==
  LET k == Len(units)
  IN IF k # 0 /\ Fits(units[k], m) THEN [units EXCEPT ![k] = Append(@, m)]
     ELSE Append(units, <<m>>)

_plan_media_units(p) ==
  LET all == _eligible_media(p)
      planned[n \in 0 .. Len(all)] == IF n = 0 THEN <<>> ELSE Placed(planned[n - 1], all[n])
  IN planned[Len(all)]
-----------------------------------------------------------------------------
Unit(kind, post, part) == [kind |-> kind, post |-> post, part |-> part]

(* The parts of every draft in order.                                      *)
_fallback_split_parts(ds) ==
  LET split[n \in 0 .. Len(ds)] ==
        IF n = 0 THEN <<>>
        ELSE split[n - 1] \o [k \in 1 .. PartsOf[ds[n]] |-> Unit("text", ds[n], k)]
  IN split[Len(ds)]

(* Mutant: one short text goes under the media whatever else there is.     *)
CaptionFirst(ds, text, p) ==
  IF text # "draft" THEN <<Unit("text", 0, 1)>>
  ELSE IF p \cap Pictured # {} /\ ds # <<>> /\ ds[1] \in Brief THEN <<Unit("caption", ds[1], 1)>>
  ELSE _fallback_split_parts(ds)

(* A short text of one draft goes under the media, a longer one into       *)
(* messages; a preferred text is one message to be looked up.              *)
_plan_text_units(ds, text, p) ==
  IF text # "draft" THEN <<Unit("text", 0, 1)>>
  ELSE IF p \cap Pictured # {} /\ Len(ds) = 1 /\ ds[1] \in Brief THEN <<Unit("caption", ds[1], 1)>>
  ELSE _fallback_split_parts(ds)

plan_fused_private_review_delivery(k) ==
  (IF k.posts \cap Pictured # {} THEN <<Unit("media", 0, 1)>> ELSE <<>>)
    \o _plan_text_units(k.drafts, k.text, k.posts)
    \o (IF k.drafts # <<>> THEN <<Unit("review_controls", 0, 1)>> ELSE <<>>)
-----------------------------------------------------------------------------
(* The plan of a package shows every medium of its posts exactly once, and *)
(* asks for no album that Telegram would refuse                            *)
(* (src/docs/fused-private-review-delivery-foundation.md:74).              *)
PlansCarryAll ==
  \A p \in fusion.packages :
    LET units == _plan_media_units(p)
    IN /\ \A i, j \in DOMAIN units : \A n \in DOMAIN units[i], k \in DOMAIN units[j] :
            units[i][n].media = units[j][k].media => i = j /\ n = k
       /\ UNION {{units[i][n].media : n \in DOMAIN units[i]} : i \in DOMAIN units}
            = UNION {{Shows[u][i].media : i \in DOMAIN Shows[u]} : u \in p.posts}
       /\ \A i \in DOMAIN units :
            /\ Len(units[i]) <= Album
            /\ Len(units[i]) > 1 => \A n \in DOMAIN units[i] : units[i][n].kind \in AlbumKinds

(* A plan shows the media first, and the controls last and once when there *)
(* is a draft; without a preferred text it holds each message of each      *)
(* draft once and in order, or the one draft under its media               *)
(* (src/docs/fused-private-review-delivery-foundation.md:85).              *)
PlansKeepDrafts ==
  LET p == package
      units == plan_fused_private_review_delivery(p)
      texts == {i \in DOMAIN units : units[i].kind \in {"caption", "text"}}
  IN /\ \A i \in DOMAIN units :
          /\ units[i].kind = "media" <=> i = 1 /\ p.posts \cap Pictured # {}
          /\ units[i].kind = "review_controls" <=> i = Len(units) /\ p.drafts # <<>>
     /\ p.text = "draft" =>
          /\ \A d \in DOMAIN p.drafts : \A n \in 1 .. PartsOf[p.drafts[d]] :
               \E i \in texts : units[i].post = p.drafts[d] /\ units[i].part = n
          /\ \A i, j \in texts : i < j =>
               \/ units[i].post < units[j].post
               \/ units[i].post = units[j].post /\ units[i].part < units[j].part
          /\ (\E i \in texts : units[i].kind = "caption") => Len(p.drafts) = 1 /\ p.drafts[1] \in Brief
=============================================================================
