----------------------------- MODULE MCExchange -----------------------------
(***************************************************************************)
(* Alice and Bob have their accounts on the gateway; they share a direct   *)
(* chat and a group, where Carol is mentioned.  Alice's client begins with *)
(* any kind of message, or one of the phones does.                         *)
(***************************************************************************)
EXTENDS Exchange

CONSTANTS alice, bob, carol

MCAccounts == {alice, bob}
MCPeople   == {alice, bob, carol}

ToBob   == Written(bob, "pn")
ToGroup == Written(Group, "group")

Options ==
    [mentions |-> <<Written(carol, "lid"), Written(bob, NoServer)>>, isForwarded |-> TRUE,
     ephemeralExpiration |-> "90d"]

Request(kind, to, fields) == [kind |-> kind, to |-> to] @@ fields

MediaRequests ==
    {Request(k, ToBob, [data |-> "file", mimeType |-> "m", caption |-> "c", filename |-> "f",
                        viewOnce |-> TRUE] @@ Options) : k \in MediaKinds}

\* Of every kind; to a number, a JID with a `+', a LID and a group; with and
\* without options; some that are refused.
MCFirstRequests ==
    [a \in MCAccounts |-> IF a = bob THEN {} ELSE
      MediaRequests \cup
      {Request("text", ToBob, [text |-> "t"]),
       Request("text", [Written(bob, NoServer) EXCEPT !.plus = TRUE], [text |-> "t"] @@ Options),
       Request("text", Written(bob, "lid"), [text |-> "t", ephemeralExpiration |-> "off"]),
       Request("text", ToGroup, [text |-> "t", mentions |-> <<Written(carol, "lid")>>]),
       Request("text", Written(Stray, "pn"), [text |-> "t"]),
       Request("link", ToBob, [text |-> "t", url |-> "u", title |-> "i"] @@ Options),
       Request("link", ToBob, [text |-> "t", url |-> "u"]),
       Request("link", ToBob, [text |-> "t", url |-> "u", jpegThumbnail |-> "garbled"]),
       Request("contact", ToGroup, [vcard |-> "v"]),
       Request("contact", ToBob, [displayName |-> "d"]),
       Request("location", ToBob, [onEarth |-> TRUE, ephemeralExpiration |-> "7d"]),
       Request("image", ToGroup, [dataUrl |-> "file", ephemeralExpiration |-> "24h"]),
       Request("image", ToBob, [data |-> "garbled"]),
       Request("image", ToBob, [data |-> "file", dataUrl |-> "file"])}]

Phone(author, to, content) ==
    [author |-> author, to |-> to, category |-> "", content |-> content]

Ad == [source |-> "s"]

MCFromPhones ==
    {Phone(bob, Jid(alice, "pn"), [conversation |-> "t"]),
     Phone(bob, GroupJID, [conversation |-> "t", senderKey |-> "k"]),
     Phone(bob, GroupJID, [senderKey |-> "k"]),
     Phone(bob, Jid(alice, "pn"), [extendedText |->
        [text |-> "t", context |->
            [ad |-> [ctwaClid |-> "c", mediaType |-> "image"], conversionSource |-> "FB_Ads"]]]),
     Phone(bob, GroupJID, [extendedText |->
        [text |-> "t", context |->
            [ad |-> [title |-> "card"], mentioned |-> <<Jid(carol, "lid"), Jid(alice, "lid")>>,
             stanzaId |-> 7, participant |-> Written(carol, "lid"),
             quoted |-> [text |-> "q"]]]]),
     Phone(bob, Jid(alice, "pn"), [contacts |-> [contacts |-> <<"v", "">>]]),
     Phone(bob, Jid(alice, "pn"), [protocol |-> [type |-> "ephemeral", expiration |-> Days(90)]]),
     Phone(alice, Jid(bob, "pn"), [protocol |-> [type |-> "revoke"]]),
     Phone(bob, Jid(alice, "pn"), [protocol |-> [type |-> "other"]]),
     Phone(alice, Jid(NoUser, "status"), [conversation |-> "t"]),
     [Phone(alice, Jid(bob, "pn"), [conversation |-> "t"]) EXCEPT !.category = "peer"]}

MCNotices ==
    LET by(p) == [sender |-> Jid(p, "lid"), senderAlt |-> EmptyJID, fromMe |-> FALSE,
                  chat |-> Jid(p, "lid")]
        e(is, p) == [is |-> is, jid |-> Jid(p, "lid")]
    IN  {[is |-> "ChatPresence", info |-> by(bob), state |-> "composing", audio |-> TRUE],
         [is |-> "ChatPresence", info |-> by(bob), state |-> "composing", audio |-> FALSE],
         [is |-> "ChatPresence", info |-> by(bob), state |-> "paused", audio |-> FALSE],
         e("PushName", bob) @@ [name |-> "n"],
         [is |-> "PushName", jid |-> EmptyJID, name |-> "n"],
         [is |-> "BusinessName"],
         e("UserAbout", alice) @@ [status |-> "s"],
         e("Picture", carol) @@ [author |-> Jid(alice, "pn"), pictureId |-> "p"],
         e("Presence", bob) @@ [unavailable |-> TRUE, lastSeen |-> "l"],
         e("Contact", bob) @@ [fromFullSync |-> FALSE, fullName |-> "n", saved |-> TRUE],
         [is |-> "CallOffer", id |-> "c", creator |-> Jid(bob, "lid"), group |-> EmptyJID, video |-> TRUE],
         [is |-> "CallOffer", id |-> "c", creator |-> Jid(bob, "lid"), group |-> GroupJID, video |-> FALSE],
         [is |-> "CallAccept", id |-> "c", creator |-> Jid(bob, "pn")],
         [is |-> "CallTerminate", id |-> "c", creator |-> Jid(bob, "lid"), reason |-> "group_call_ended"],
         [is |-> "NewsletterJoin", jid |-> Jid("n", "newsletter"), name |-> "n", role |-> "guest"],
         [is |-> "NewsletterLeave", jid |-> Jid("n", "newsletter"), role |-> "guest"],
         [is |-> "NewsletterMuteChange", jid |-> Jid("n", "newsletter"), mute |-> "on"],
         [is |-> "PairSuccess", jid |-> Jid(alice, "pn")],
         [is |-> "PairError", jid |-> Jid(alice, "pn"), error |-> "e"],
         [is |-> "LoggedOut", reason |-> "r"],
         [is |-> "Disconnected"]}
=============================================================================
