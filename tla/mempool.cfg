SPECIFICATION Spec
CONSTANT BlockCount = 5
INVARIANTS ChainIsFreeBlocks FreeCountIsExact
