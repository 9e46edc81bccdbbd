------------------------------ MODULE ConfigExport ------------------------------
(***************************************************************************)
(* What is written into the configs of a device and what the bot makes of  *)
(* them later: the file, the "vpn://" key of the WireGuard config and the  *)
(* "vless://" link of the Xray config.  A config is rendered once, from    *)
(* the settings of that day, and stored encrypted; keys and links are made *)
(* from it on demand, by a process that may have started with others.      *)
(*                                                                         *)
(* Abstractions.  One user and one node.  A host is its class, which is    *)
(* what validation and parsing look at; the AWG parameters are one value;  *)
(* private key, public key, preshared key, address and uuid of a device    *)
(* are the device.  Values that are the same in every config (DNS, allowed *)
(* addresses, keepalive, server name, short id) are left out.  A request   *)
(* is one step: what may change between its statements is in ConfigTokens  *)
(* and AccessControl.                                                      *)
(***************************************************************************)
EXTENDS Integers, FiniteSets

CONSTANTS
    Devices,
    Settings,    \* what the environment of the control plane may hold
    Rows,        \* what the row of the node may hold
    NoText,      \* no config stored, nothing sent
    MaxStarts    \* bound: restarts and registrations

Hosts == {"", "name", "ip4", "ip6", "lan", "placeholder"}
Ports == -1..65536
KeyIds  == {"", "k1", "k2"}
PubIds  == {"", "x1", "x2"}

Setting == [host: Hosts, port: Ports,    \* VPN_SERVER_PUBLIC_ENDPOINT
            key: KeyIds,                   \* VPN_SERVER_PUBLIC_KEY
            mtu: 0..9000, awg: {"a1", "a2"},
            xhost: Hosts, xport: Ports,  \* XRAY_PUBLIC_HOST, XRAY_REALITY_PORT
            xpub: PubIds,                \* XRAY_REALITY_PUBLIC_KEY
            master: {"m1", "m2"}]        \* CONFIG_MASTER_KEY
Row     == [host: Hosts, port: Ports, key: KeyIds]  \* of vpn_nodes

SettingsAreTyped == Settings \subseteq Setting /\ Rows \subseteq Row
StartsAreNat     == MaxStarts \in Nat

VARIABLES
    env,     \* the settings the process started with
    row,     \* the row of the node
    dev,     \* status of a device with its accesses
    wg,      \* encrypted config of the WireGuard access
    xray,    \* encrypted config of the Xray access
    sent,    \* history: what the last request brought the user
    made,    \* history: the settings the WireGuard config was rendered from
    starts   \* history: restarts and registrations

vars == <<env, row, dev, wg, xray, sent, made, starts>>

WgText   == [dev: Devices, key: KeyIds, host: Hosts, port: Ports, mtu: 1..9000, awg: {"a1", "a2"}]
Link     == [dev: Devices, host: Hosts, port: Ports, pub: {"x1", "x2"}]
Blob(T)  == {NoText} \cup [master: {"m1", "m2"}, text: T]

(* The renderer writes a config with its link inside; rows written before   *)
(* it hold the bare uuid. *)
XrayText == [kind: {"config"}, dev: Devices, link: Link] \cup [kind: {"uuid"}, dev: Devices]

NoTextIsNone == NoText \notin WgText /\ NoText \notin XrayText

TypeOK ==
    /\ env \in Settings /\ row \in Rows
    /\ dev \in [Devices -> {"none", "active", "revoked"}]
    /\ \A d \in Devices : wg[d] \in Blob(WgText) /\ xray[d] \in Blob(XrayText)
    /\ made \in [Devices -> Settings]
    /\ starts \in 0..MaxStarts

NothingSent == [file |-> NoText, key |-> NoText, link |-> NoText, url |-> FALSE]

(* A user from before may have an active device whose Xray row holds the    *)
(* uuid alone. *)
Init ==
    /\ env \in Settings /\ row \in Rows
    /\ \E old \in SUBSET Devices :
           /\ Cardinality(old) <= 1
           /\ dev = [d \in Devices |-> IF d \in old THEN "active" ELSE "none"]
           /\ xray = [d \in Devices |->
                  IF d \in old THEN [master |-> env.master, text |-> [kind |-> "uuid", dev |-> d]]
                  ELSE NoText]
    /\ wg = [d \in Devices |-> NoText]
    /\ sent = NothingSent
    /\ made = [d \in Devices |-> env]
    /\ starts = 0
--------------------------------------------------------------------------------
(***************************************************************************)
(* Rendering.                                                              *)
(***************************************************************************)
OrElse(v, fallback) == IF v = "" THEN fallback ELSE v
OrInt(v, fallback)  == IF v = 0 THEN fallback ELSE v

ValidateConfigEndpointHost(h) == h \in {"name", "ip4", "ip6"}

ValidateConfigEndpointPort(p) == p \in 1..65535

(* The endpoint: the columns of the row go before the setting, and a port   *)
(* that is no port becomes 51820. *)
EndpointHost == OrElse(row.host, env.host)
EndpointPort == IF row.port > 0 THEN row.port
                ELSE IF env.port > 0 THEN env.port ELSE 51820
ServerKey    == OrElse(env.key, row.key)

RenderAmneziaWG(d) ==
    IF /\ ValidateConfigEndpointHost(EndpointHost) /\ ValidateConfigEndpointPort(EndpointPort)
       /\ ServerKey # ""
    THEN [dev |-> d, key |-> ServerKey, host |-> EndpointHost, port |-> EndpointPort,
          mtu |-> IF env.mtu <= 0 THEN 1376 ELSE env.mtu, awg |-> env.awg]
    ELSE NoText

XrayHost == OrElse(env.xhost, EndpointHost)
XrayPort == OrInt(env.xport, EndpointPort)

RenderXrayReality(d) ==
    IF /\ ValidateConfigEndpointHost(XrayHost) /\ ValidateConfigEndpointPort(XrayPort)
       /\ env.xpub # ""
    THEN [kind |-> "config", dev |-> d,
          link |-> [dev |-> d, host |-> XrayHost, port |-> XrayPort, pub |-> env.xpub]]
    ELSE NoText

Encrypt(text) == IF text = NoText THEN NoText ELSE [master |-> env.master, text |-> text]
Decrypts(b)   == b # NoText /\ b.master = env.master
--------------------------------------------------------------------------------
(***************************************************************************)
(* Reading back.                                                           *)
(***************************************************************************)
(* The parser of the key export splits "host:port" at the last colon, which *)
(* an IPv6 address without brackets does not survive. *)
ParseWGConfig(t) == IF t.host = "ip6" THEN NoText ELSE t

(* The fields of the config come from its text, the AWG parameters and the  *)
(* MTU from the settings of the process. *)
ExportDefaultVPN(t) ==
    LET p == ParseWGConfig(t)
    IN  IF p = NoText THEN NoText
        ELSE [dev |-> p.dev, key |-> p.key, host |-> p.host, port |-> p.port,
              mtu |-> IF env.mtu <= 0 THEN 1376 ELSE env.mtu, awg |-> env.awg, text |-> t]

ExportVLESSReality(d) ==
    IF env.xhost = "" \/ env.xport <= 0 \/ env.xpub = "" THEN NoText
    ELSE [dev |-> d, host |-> env.xhost, port |-> env.xport, pub |-> env.xpub]

(* Mutant: the link is built from the settings of today. *)
exportFreshLink(t) == ExportVLESSReality(t.dev)

exportXrayLink(t) == IF t.kind = "config" THEN t.link ELSE ExportVLESSReality(t.dev)

Active    == {d \in Devices : dev[d] = "active"}
(* The row of the node decides, unless it has no key. *)
IsFresh(t) == row.key \in {"", t.key}

(* The WireGuard config of the user: a config that cannot be decrypted is   *)
(* passed over, one with another server key is dropped. *)
Current == {d \in Active : Decrypts(wg[d]) /\ IsFresh(wg[d].text)}
Stale   == {d \in Active : Decrypts(wg[d]) /\ ~IsFresh(wg[d].text)}

ClearConfigBlob == wg' = [d \in Devices |-> IF d \in Stale THEN NoText ELSE wg[d]]
--------------------------------------------------------------------------------
(***************************************************************************)
(* Steps.                                                                  *)
(***************************************************************************)
(* A new device; without a WireGuard config the Xray one is not tried. *)
CreateDevice(d) ==
    /\ dev[d] = "none" /\ Active = {}
    /\ dev' = [dev EXCEPT ![d] = "active"]
    /\ wg' = [wg EXCEPT ![d] = Encrypt(RenderAmneziaWG(d))]
    /\ xray' = [xray EXCEPT ![d] = IF RenderAmneziaWG(d) = NoText THEN NoText
                                   ELSE Encrypt(RenderXrayReality(d))]
    /\ made' = [made EXCEPT ![d] = env]
    /\ sent' = NothingSent
    /\ UNCHANGED <<env, row, starts>>

(* Revocation clears the configs. *)
RevokeDevice(d) ==
    /\ dev[d] = "active"
    /\ dev' = [dev EXCEPT ![d] = "revoked"]
    /\ wg' = [wg EXCEPT ![d] = NoText]
    /\ xray' = [xray EXCEPT ![d] = NoText]
    /\ sent' = NothingSent
    /\ UNCHANGED <<env, row, made, starts>>

(* "Key for DefaultVPN". *)
sendDefaultVPNKey ==
    /\ sent' = [NothingSent EXCEPT !.key =
           IF Current = {} THEN NoText
           ELSE LET d == CHOOSE d \in Current : TRUE IN ExportDefaultVPN(wg[d].text)]
    /\ ClearConfigBlob
    /\ UNCHANGED <<env, row, dev, xray, made, starts>>

(* "Config as QR, as text": the text as it is stored. *)
sendConfigText ==
    /\ sent' = [NothingSent EXCEPT !.file =
           IF Current = {} THEN NoText ELSE LET d == CHOOSE d \in Current : TRUE IN wg[d].text]
    /\ ClearConfigBlob
    /\ UNCHANGED <<env, row, dev, xray, made, starts>>

(* The Xray file, then its link or, when there is none, a download link.    *)
(* Telegram takes the file or not. *)
HealthLink(taken) ==
    LET ready == {d \in Active : Decrypts(xray[d])}
        t     == xray[CHOOSE d \in ready : TRUE].text
        link  == exportXrayLink(t)
    IN  IF ready = {} \/ ~taken THEN NothingSent
        ELSE [file |-> t, key |-> NoText, link |-> link, url |-> link = NoText]

trySendHealthLink ==
    /\ \E taken \in BOOLEAN : sent' = HealthLink(taken)
    /\ UNCHANGED <<env, row, dev, wg, xray, made, starts>>

(* "Get config" with a device: Xray first and WireGuard in its place. *)
handleGetConfig ==
    /\ Active # {}
    /\ ClearConfigBlob
    /\ \E taken \in BOOLEAN :
           sent' = IF Current = {} THEN NothingSent
                   ELSE IF HealthLink(taken) # NothingSent THEN HealthLink(taken)
                   ELSE [NothingSent EXCEPT !.file = LET d == CHOOSE d \in Current : TRUE
                                                     IN  wg[d].text]
    /\ UNCHANGED <<env, row, dev, xray, made, starts>>

(* The control plane starts with other settings. *)
LoadConfig ==
    /\ starts < MaxStarts /\ starts' = starts + 1
    /\ env' \in Settings \ {env}
    /\ sent' = NothingSent
    /\ UNCHANGED <<row, dev, wg, xray, made>>

(* The agent registers with another endpoint or key. *)
RegisterNode ==
    /\ starts < MaxStarts /\ starts' = starts + 1
    /\ row' \in Rows \ {row}
    /\ sent' = NothingSent
    /\ UNCHANGED <<env, dev, wg, xray, made>>

Next ==
    \/ \E d \in Devices : CreateDevice(d) \/ RevokeDevice(d)
    \/ sendDefaultVPNKey \/ sendConfigText \/ trySendHealthLink \/ handleGetConfig
    \/ LoadConfig \/ RegisterNode

Spec == Init /\ [][Next]_vars
--------------------------------------------------------------------------------
(***************************************************************************)
(* Properties.                                                             *)
(***************************************************************************)
CanBeDialled(t) == t.host \in {"name", "ip4", "ip6"} /\ t.port \in 1..65535

(* No device is ever given a config that cannot be dialled: whichever of    *)
(* row, setting and Xray setting the host and the port were taken from, an  *)
(* address of the own network, a placeholder or a port out of range ends    *)
(* the rendering. *)
StoredCanBeDialled ==
    /\ \A d \in Devices : wg[d] # NoText => CanBeDialled(wg[d].text)
    /\ \A d \in Devices : xray[d] # NoText /\ xray[d].text.kind = "config" =>
           CanBeDialled(xray[d].text.link)

(* A key says of the tunnel what the config inside it says, as long as the  *)
(* settings are those the config was rendered from: renderer and exporter   *)
(* fall back on the same MTU. *)
KeyAgreesUntilSettingsChange ==
    sent.key # NoText =>
        LET t == sent.key.text
        IN  /\ <<sent.key.dev, sent.key.key, sent.key.host, sent.key.port>>
                 = <<t.dev, t.key, t.host, t.port>>
            /\ made[t.dev] = env => sent.key.mtu = t.mtu /\ sent.key.awg = t.awg

(* The link sent after an Xray file leads where the file does, however the  *)
(* settings have changed since the file was rendered. *)
LinkAgreesWithFile ==
    sent.link # NoText /\ sent.file.kind = "config" => sent.link = sent.file.link

(* A config encrypted with another CONFIG_MASTER_KEY is kept by every       *)
(* request of the user, so that it can be read again once the old key is    *)
(* back; only a revocation or a new config ends it. *)
UnreadableIsKept ==
    [][ \A d \in Devices :
            wg[d] # NoText /\ wg[d].master # env.master =>
                wg'[d] = wg[d] \/ dev'[d] = "revoked" ]_vars

(* "Get config" comes back empty-handed only when the user has no readable  *)
(* WireGuard config for the key of the node, even if the Xray config is     *)
(* missing, unreadable or not taken by Telegram. *)
GetConfigDelivers ==
    [][ handleGetConfig /\ Current # {} => sent'.file # NoText ]_vars

(* File, key and link tell of one tunnel that can be dialled, and no       *)
(* request loses a config or comes back without one that is there.         *)
TextsAgree ==
    /\ [](TypeOK /\ StoredCanBeDialled /\ KeyAgreesUntilSettingsChange /\ LinkAgreesWithFile)
    /\ UnreadableIsKept /\ GetConfigDelivers

================================================================================
