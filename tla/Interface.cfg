CONSTANT None = None
SPECIFICATION InterfaceSpec
INVARIANTS  TerminalHolds ImagesRight TextsHold DocumentsRight
  
\* A text that an edit has torn apart is not edited further; a call that has
\* returned and a picture that is drawn have no next step.
CHECK_DEADLOCK FALSE
