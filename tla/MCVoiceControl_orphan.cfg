CONSTANT
    ClickAction <- MCClickAction
SPECIFICATION Spec
INVARIANT
    ClaimIsHeld
