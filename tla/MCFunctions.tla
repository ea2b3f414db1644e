---------------------------- MODULE MCFunctions ----------------------------
(***************************************************************************)
(* The algorithms of the code that keep no state between two calls: mixing *)
(* (AudioMixer), frames (WebSocketFrame), messages (BinaryData) and base64 *)
(* (Base64).  A behaviour tries the inputs of one of them, the subject.    *)
(***************************************************************************)
EXTENDS AudioMixer, WebSocketFrame, BinaryData, Base64

MCLevels  == {-8, -1, 3, 7}
MCSizes   == {0, 1, 2, 3, 4, 125, 126, 127, 255, 256, 257,
              65528, 65529, 65532, 65533, 65535, 65536, 65537, 104857600, 104857601}
MCTypes   == {0, -2, 511}
MCChars   == {65, 127, 128, 192, 255}
MCDigits  == {0, 1, 6, 15}

VARIABLE subject

Init ==
    /\ subject \in {"mixing", "frames", "messages", "base64"}
    /\ MixerInit /\ FrameInit /\ MessageInit /\ Base64Init

Next ==
    /\ UNCHANGED subject
    /\ \/ /\ subject = "mixing" /\ MixerNext
          /\ UNCHANGED <<frameVars, messageVars, base64Vars>>
       \/ /\ subject = "frames" /\ FrameNext
          /\ UNCHANGED <<mixerVars, messageVars, base64Vars>>
       \/ /\ subject = "messages" /\ MessageNext
          /\ UNCHANGED <<mixerVars, frameVars, base64Vars>>
       \/ /\ subject = "base64" /\ Base64Next
          /\ UNCHANGED <<mixerVars, frameVars, messageVars>>

Spec == Init /\ [][Next]_<<subject, mixerVars, frameVars, messageVars, base64Vars>>

=============================================================================
