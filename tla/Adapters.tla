------------------------------ MODULE Adapters ------------------------------
(***************************************************************************)
(* The five channel adapters: what a platform's webhook becomes, and how a *)
(* message of ours is sent on it.  A platform message has a type, may or   *)
(* may not carry the platform's id (named), and its content may fail the   *)
(* second decoding (readable); a request may fail its signature check.     *)
(***************************************************************************)
EXTENDS Naturals

Platforms == {"wechat", "douyin", "kuaishou", "taobao", "xiaohongshu"}
RawTypes == {"text", "image", "video", "card", "voice", "event"}
Bodies == {"message", "junk", "challenge"}
NoKey == <<>>
NoContent == [type |-> "none", text |-> "", url |-> "", desc |-> ""]

Words(t) == [type |-> "text", text |-> t, url |-> "", desc |-> ""]
Medium(kind, there) == [type |-> kind, text |-> "", url |-> IF there THEN "url" ELSE "", desc |-> ""]
Link(there) == [Medium("link", there) EXCEPT !.desc = IF there THEN "desc" ELSE ""]
Unsupported == Words("unsupported")

(* WeChat: XML, decoded once; a voice message has its recognised text.      *)
WechatContent(m) ==
  CASE m.type = "text" -> Words("said")
    [] m.type = "voice" -> Words(IF m.readable THEN "said" ELSE "voice")
    [] m.type \in {"image", "video"} -> Medium(m.type, TRUE)
    [] m.type = "card" -> Link(TRUE)
    [] m.type = "event" -> [NoContent EXCEPT !.type = "event"]

(* The JSON platforms carry the content as a string that is decoded again:  *)
(* text that does not decode is kept as it came, a medium loses its address.*)
Redecoded(m, kinds) ==
  CASE m.type = "text" -> Words(IF m.readable THEN "said" ELSE "raw")
    [] m.type \in kinds -> Medium(m.type, m.readable)
    [] OTHER -> Unsupported

DouyinContent(m) == IF m.type = "card" THEN Link(m.readable) ELSE Redecoded(m, {"image", "video"})
KuaishouContent(m) == IF m.type = "card" THEN Link(m.readable) ELSE Redecoded(m, {"image", "video"})
TaobaoContent(m) == Redecoded(m, {"image"})

(* Xiaohongshu ignores the decoding error: the words are lost with it, and  *)
(* a note always has an address.                                            *)
XhsContent(m) ==
  CASE m.type = "text" -> Words(IF m.readable THEN "said" ELSE "")
    [] m.type \in {"image", "video"} -> Medium(m.type, m.readable)
    [] m.type = "card" -> [Link(m.readable) EXCEPT !.url = "url"]
    [] OTHER -> Unsupported

\* Mutant: the id is not read.
SecondOnly(m) == <<"at", m.second>>

\* Without an id the key is the customer (one here) and the second of sending.
NameOrSecond(m) == IF m.named THEN <<"id", m.id>> ELSE <<"at", m.second>>

WechatParse(m) == [key |-> NameOrSecond(m), content |-> WechatContent(m), of |-> m.id]
DouyinParse(m) == [key |-> NameOrSecond(m), content |-> DouyinContent(m), of |-> m.id]
KuaishouParse(m) == [key |-> NameOrSecond(m), content |-> KuaishouContent(m), of |-> m.id]
TaobaoParse(m) == [key |-> NameOrSecond(m), content |-> TaobaoContent(m), of |-> m.id]
XhsParse(m) == [key |-> IF m.named THEN <<"id", m.id>> ELSE NoKey, content |-> XhsContent(m), of |-> m.id]

(* A handler's answer, and what it publishes.  A body that does not parse   *)
(* is answered 200 so that the platform stops sending it.                   *)
Forbidden == [code |-> 403, publish |-> {}]
Echo == [code |-> 200, publish |-> {}]
Handled(signed, body, entry) ==
  IF ~signed THEN Forbidden ELSE IF body = "message" THEN [code |-> 200, publish |-> {entry}] ELSE Echo

WechatWebhook(signed, body, m) == Handled(signed, body, WechatParse(m))
DouyinWebhook(signed, body, m) == Handled(signed, body, DouyinParse(m))
KuaishouWebhook(signed, body, m) == Handled(signed, body, KuaishouParse(m))
TaobaoWebhook(signed, body, m) == Handled(signed, body, TaobaoParse(m))
XhsWebhook(signed, body, m) == Handled(signed, body, XhsParse(m))

\* Mutant: the description first.
DescriptionFirst(c) == IF c.desc # "" THEN c.desc ELSE IF c.text # "" THEN c.text ELSE "marker"

(* FormatOutbound: text, the media the platform takes, and for the rest the *)
(* text, else the description, else a marker.                               *)
FirstWords(c) == IF c.text # "" THEN c.text ELSE IF c.desc # "" THEN c.desc ELSE "marker"
Formatted(c, media) ==
  IF c.type = "text" THEN Words(c.text)
  ELSE IF c.type \in media THEN Medium(c.type, c.url # "") ELSE Words(FirstWords(c))

(* SendMessage fails without a token, on a transport error, on an answer it *)
(* cannot read and on the platform's error code; without a token, or when   *)
(* refused, nothing reaches the customer.                                   *)
Nets == {"ok", "no_token", "transport", "garbled", "refused"}
Outcome(net, payload) ==
  [error |-> net # "ok", seen |-> IF net \in {"no_token", "refused"} THEN NoContent ELSE payload]

WechatSend(c, net) == Outcome(net, Formatted(c, {"image"}))
DouyinSend(c, net) == Outcome(net, Formatted(c, {"image", "video"}))
KuaishouSend(c, net) == Outcome(net, Formatted(c, {"image", "video"}))
TaobaoSend(c, net) == Outcome(net, Formatted(c, {"image"}))
XhsSend(c, net) == Outcome(net, Formatted(c, {"image", "video"}))

WebhookOf(p, signed, body, m) ==
  CASE p = "wechat" -> WechatWebhook(signed, body, m)
    [] p = "douyin" -> DouyinWebhook(signed, body, m)
    [] p = "kuaishou" -> KuaishouWebhook(signed, body, m)
    [] p = "taobao" -> TaobaoWebhook(signed, body, m)
    [] p = "xiaohongshu" -> XhsWebhook(signed, body, m)

SendOf(p, c, net) ==
  CASE p = "wechat" -> WechatSend(c, net)
    [] p = "douyin" -> DouyinSend(c, net)
    [] p = "kuaishou" -> KuaishouSend(c, net)
    [] p = "taobao" -> TaobaoSend(c, net)
    [] p = "xiaohongshu" -> XhsSend(c, net)
=============================================================================
