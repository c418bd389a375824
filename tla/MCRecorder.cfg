\* Informational, protocol switch, bodyless and ordinary codes; bodies around the copy buffer.
CONSTANTS
    Codes <- MCCodes
    CopyBuf = 2
    MaxBody = 3
SPECIFICATION Spec
INVARIANTS RecorderAgrees ServerNotMisused NoMixedReply PanicIsReported
