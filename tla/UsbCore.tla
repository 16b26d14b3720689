------------------------------ MODULE UsbCore ------------------------------
(***************************************************************************)
(* What driver/usb/usb_core.c and driver/usb/hid/usb_kbd.c ask of a device *)
(* on the default control pipe, as a function of the device: the requests  *)
(* of usb_attach_device in order, how usb_read_configuration_descriptor    *)
(* cuts a configuration into interfaces and endpoints, and which endpoint  *)
(* the boot keyboard driver picks.  A request that fails ends in PANIC     *)
(* (usb_control_msg), so the requests of a device form a list.             *)
(*                                                                         *)
(* A descriptor is a record with its type t and its bLength len; of its    *)
(* other fields only the ones the code looks at are kept.                  *)
(***************************************************************************)
EXTENDS Integers, Sequences, FiniteSets, SequencesExt

CONSTANTS
  USB_DEVICE_MAX_INTERFACES,  \* 8 in usb.h
  USB_DEVICE_MAX_ENDPOINTS    \* 8 in usb.h

HEADER == 2          \* sizeof(struct USB20_descriptor_header)
STRINGBUF == 2 + 256 \* usb_get_ascii_string's buf

\* sizeof of the descriptor structs the walk casts to.
SizeOf == [INTERFACE |-> 9, ENDPOINT |-> 7]

-----------------------------------------------------------------------------
(* usb_read_configuration_descriptor: one descriptor of the walk.          *)

\* Mutant: the endpoints of the interface before are not counted.
WalkInterface_uncounted(s, d) ==
  IF d.alt # 0 THEN [s EXCEPT !.alt = TRUE]
  ELSE IF Len(s.interfaces) + 1 > USB_DEVICE_MAX_INTERFACES
       THEN [s EXCEPT !.res = "UNSUPPORTED"]
  ELSE [s EXCEPT !.alt = FALSE, !.interfaces = Append(@, d), !.endpoints = Append(@, <<>>)]

\* A new interface, once the one before has as many endpoints as it announced.
WalkInterface(s, d) ==
  LET ifc == Len(s.interfaces) IN
  IF ifc > 0 /\ ~s.alt /\ Len(s.endpoints[ifc]) # s.interfaces[ifc].n
  THEN [s EXCEPT !.res = "INVALID"]
  ELSE IF d.alt # 0 THEN [s EXCEPT !.alt = TRUE]
  ELSE IF ifc + 1 > USB_DEVICE_MAX_INTERFACES THEN [s EXCEPT !.res = "UNSUPPORTED"]
  ELSE [s EXCEPT !.alt = FALSE, !.interfaces = Append(@, d),
                 !.endpoints = Append(@, <<>>)]

\* An endpoint of the default setting; those of alternate settings are skipped.
WalkEndpoint(s, d) ==
  LET ifc == Len(s.interfaces) IN
  IF ifc = 0 THEN [s EXCEPT !.res = "INVALID"]
  ELSE IF s.alt THEN s
  ELSE IF Len(s.endpoints[ifc]) + 1 > USB_DEVICE_MAX_ENDPOINTS
       THEN [s EXCEPT !.res = "UNSUPPORTED"]
  ELSE [s EXCEPT !.endpoints[ifc] = Append(@, d)]

\* The loop body at offset s.i of a buffer of total bytes.
WalkStep(total, s, d) ==
  IF s.res # "GO" \/ s.i + HEADER > total THEN s
  ELSE IF \/ d.len < HEADER
          \/ d.t \in DOMAIN SizeOf /\ s.i + SizeOf[d.t] > total
       THEN [s EXCEPT !.res = "INVALID"]
  ELSE [CASE d.t = "INTERFACE" -> WalkInterface(s, d)
          [] d.t = "ENDPOINT" -> WalkEndpoint(s, d)
          [] OTHER -> s
        EXCEPT !.i = @ + d.len]

\* What the buffer, zero before the read, holds once n bytes of cfg arrived: the
\* descriptors whose header is among them.
Received(cfg, n) ==
  LET Begin(k) == FoldLeft(LAMBDA m, d : m + d.len, 0, SubSeq(cfg, 1, k - 1))
  IN SubSeq(cfg, 1, Cardinality({k \in 1..Len(cfg) : Begin(k) + HEADER <= n}))

\* The whole walk; bytes no descriptor covers are zero, a bLength below 2.
usb_read_configuration_descriptor(cfg) ==
  LET total == cfg[1].total
      s0 == [res |-> "GO", i |-> 0, alt |-> FALSE, interfaces |-> <<>>, endpoints |-> <<>>]
      s == FoldLeft(LAMBDA s, d : WalkStep(total, s, d), s0, cfg)
  IN IF s.res # "GO" THEN s
     ELSE IF s.i + HEADER <= total \/ Len(s.interfaces) # cfg[1].n
          THEN [s EXCEPT !.res = "INVALID"]
     ELSE [s EXCEPT !.res = "OK"]

-----------------------------------------------------------------------------
(* usb_kbd_probe_attach: the endpoint it settles on.  A slot of            *)
(* dev->endpoints that the walk left unset is the value Unset.             *)

Unset == [t |-> "UNSET"]
Endpoint(s, i, j) == IF j <= Len(s.endpoints[i]) THEN s.endpoints[i][j] ELSE Unset

\* Endpoints of interface i that are looked at, in order, up to the first match.
Examined(s, i) ==
  LET Matches(j) == Endpoint(s, i, j).t = "ENDPOINT" /\ Endpoint(s, i, j).inint
      n == s.interfaces[i].n
      hits == {j \in 1..n : Matches(j)}
  IN IF hits = {} THEN 1..n ELSE 1..(CHOOSE j \in hits : \A k \in hits : j <= k)

\* The interface the keyboard driver takes, 0 when none fits.
usb_kbd_probe(cls, s) ==
  LET Fits(i) == /\ s.interfaces[i].kbd
                 /\ \E j \in Examined(s, i) :
                      LET e == Endpoint(s, i, j) IN e.t = "ENDPOINT" /\ e.inint
      fits == {i \in 1..Len(s.interfaces) : Fits(i)}
  IN IF ~cls \/ fits = {} THEN 0 ELSE CHOOSE i \in fits : \A k \in fits : i <= k

\* The endpoint of that interface: the last one examined.
KbdEndpoint(s, i) ==
  LET js == Examined(s, i) IN Endpoint(s, i, CHOOSE j \in js : \A k \in js : k <= j)

-----------------------------------------------------------------------------
(* The requests of usb_attach_device.  A request is the number of bytes it *)
(* asks for; "config" is the read of the whole configuration, on which the *)
(* requests behind it depend; "panic" stands for a PANIC of the caller at  *)
(* that point, and "submit" for the keyboard's first interrupt request.    *)

Ctrl(len) == [op |-> "ctrl", len |-> len]
ReadConfig(len) == [op |-> "config", len |-> len]
Stop == [op |-> "panic", len |-> 0]

\* usb_get_descriptor: the header first when the buffer is larger than that.
usb_get_descriptor(bLength, buflen) ==
  IF buflen <= HEADER THEN <<Ctrl(buflen)>>
  ELSE IF bLength < HEADER THEN <<Ctrl(HEADER), Stop>>
  ELSE <<Ctrl(HEADER), Ctrl(IF bLength < buflen THEN bLength ELSE buflen)>>

\* usb_get_ascii_string: the language list, then the string; 0: no string.
usb_get_ascii_string(langs, string) ==
  IF string = 0 THEN <<>>
  ELSE usb_get_descriptor(langs, STRINGBUF)
       \o (IF (langs - HEADER) \div 2 = 0 THEN <<Stop>> ELSE <<>>)
       \o usb_get_descriptor(string, STRINGBUF)

\* usb_kbd_bind: boot protocol, idle mode, and the first interrupt request.
usb_kbd_bind(s, i) ==
  <<Ctrl(0), Ctrl(0), [op |-> "submit", len |-> KbdEndpoint(s, i).mps]>>

\* usb_try_to_bind_device_driver: dev->driver is what kmalloc left there, so the
\* device may look bound already.
usb_try_to_bind_device_driver(dev, s, looksbound) ==
  LET i == usb_kbd_probe(dev.cls, s)
  IN IF looksbound \/ i = 0 THEN <<>> ELSE usb_kbd_bind(s, i)

\* usb_attach_device up to the configuration: device descriptor, address,
\* descriptor again, strings, configuration descriptor.
usb_attach_device(dev) ==
  <<Ctrl(8), Ctrl(0), Ctrl(18)>>
  \o usb_get_ascii_string(dev.langs, dev.product)
  \o usb_get_ascii_string(dev.langs, dev.manufacturer)
  \o <<Ctrl(9), ReadConfig(dev.cfg[1].total)>>

\* ... and behind it, when n bytes of the configuration arrived: PANIC when the
\* walk does not accept them, else set the configuration and look for a driver.
AttachConfigured(dev, n, looksbound) ==
  LET s == usb_read_configuration_descriptor(Received(dev.cfg, n)) IN
  IF s.res # "OK" THEN <<Stop>>
  ELSE <<Ctrl(0)>> \o usb_try_to_bind_device_driver(dev, s, looksbound)

-----------------------------------------------------------------------------
(* The configuration read declaratively, to compare the walk with.         *)

\* Positions of the interfaces' default settings.
Defaults(cfg) == {p \in 1..Len(cfg) : cfg[p].t = "INTERFACE" /\ cfg[p].alt = 0}

\* Endpoints of the default setting at p: those before the next interface descriptor.
EndpointsAfter(cfg, p) ==
  LET later == {q \in (p + 1)..Len(cfg) : cfg[q].t = "INTERFACE"}
      end == IF later = {} THEN Len(cfg) ELSE (CHOOSE q \in later : \A r \in later : q <= r) - 1
  IN SelectSeq(SubSeq(cfg, p + 1, end), LAMBDA d : d.t = "ENDPOINT")
=============================================================================
